---- MODULE Spec2Model ----
(***************************************************************************)
(* Module federation: the container entry's emitted runtime (moduleMap,    *)
(* get, init), the remote reference factorize hook and the shared          *)
(* consumption plugin, modelled as state machines.                         *)
(***************************************************************************)
EXTENDS Integers, Sequences, FiniteSets, TLC

VARIABLES
    \* ---- share scope handshake (init) ----
    hasShareScopeMap,   \* whether __webpack_require__.S is defined at all
    shareScopeMap,      \* __webpack_require__.S : scope name -> bound object
    initPhase,          \* scope name -> absent / initializing / initialized
    initializers,       \* registered initializers: id -> [scope, target]
    ran,                \* how many times each initializer has run
    registered,         \* scope name -> initializers that registered a version
    initScope,          \* the initScope array of the current call chain
    stack,              \* frames of initializeSharing calls in progress
    calls,              \* number of outermost init calls made so far
    lastInitCall,       \* the most recent invocation of init (outer or nested)
    topCall,            \* the most recent outermost init call
    aborted,            \* scopes whose initialization was unwound by a throw
    guardHit,           \* the cycle guard returned in the current call chain
    \* ---- container entry: moduleMap and get ----
    exposes,            \* this._exposes: the expose entries, [name, import]
    currentRemoteGetScope, \* RuntimeGlobals.currentRemoteGetScope
    getPc,              \* position of the get call in progress, or idle
    getArgs,            \* arguments of the get call in progress (or the last)
    getLocal,           \* get's local getScope after its reassignment
    lastGet,            \* how the last finished get call ended
    promise,            \* the promise the last get call returned
    required,           \* modules the accessor required, in order
    accessorValue,      \* what invoking the accessor yielded
    getCalls,           \* number of get calls made so far
    blockLoads,         \* per name: loads of its block started by earlier
                        \*   calls and not settled yet
    \* ---- remote references ----
    remotes,            \* this._remotes: list of [key, external, shareScope]
    request,            \* data.request of the module being created
    factorized,         \* the factorize hook's result: match, module
    attempts,           \* loads attempted for the module, in order
    loadState,          \* idle / loading / loaded / failed
    \* ---- shared consumption (ConsumeSharedPlugin) ----
    pluginOptions,      \* the options the plugin is constructed with
    consumes,           \* this._consumes: list of [key, options]
    resolvedConsumes,   \* the three tables of the compilation, unset until
    unresolvedConsumes, \*   the promise of resolveMatchedConfigs fulfils
    prefixedConsumes,
    resolveData,        \* context, request and dependencies[0] of the module
    resource,           \* the path the factory resolved the request to
    consumePc,          \* position of the module in the factory's pipeline
    creation,           \* the createConsumeSharedModule call and its lookups
    warnings,           \* compilation.warnings
    errors,             \* compilation.errors
    created,            \* the ConsumeSharedModules constructed, in order
    \* ---- version satisfaction at load time ----
    offered,            \* versions registered for the share key in the scope
    active,             \* the version marked active for the key, if any
    consoleWarnings,    \* warnings emitted at load time
    lastRequest,        \* the last request for the key and how it ended
    \* ---- container entry: build ----
    blocks,             \* this.blocks of the container entry module
    dependencies,       \* this.dependencies of the container entry module
    buildMeta,          \* this.buildMeta, this.buildInfo
    builds              \* number of builds of the module so far

handshakeVars ==
    <<hasShareScopeMap, shareScopeMap, initPhase, initializers, ran, registered,
      initScope, stack, calls, lastInitCall, topCall, aborted, guardHit>>

getVars ==
    <<exposes, currentRemoteGetScope, getPc, getArgs, getLocal, lastGet, promise,
      required, accessorValue, getCalls, blockLoads>>

remoteVars == <<remotes, request, factorized, attempts, loadState>>

consumeVars ==
    <<pluginOptions, consumes, resolvedConsumes, unresolvedConsumes,
      prefixedConsumes, resolveData, resource, consumePc, creation, warnings, errors, created>>

shareVars == <<offered, active, consoleWarnings, lastRequest>>

buildVars == <<blocks, dependencies, buildMeta, builds>>

vars ==
    <<handshakeVars, getVars, remoteVars, consumeVars, shareVars, buildVars>>

----------------------------------------------------------------------------
\* Bounds of the model.
MaxCalls == 3
MaxDepth == 3
NumInitializers == 2

\* Scope names, registry objects and containers of the model.
ScopeNames == {"A", "B"}
NoObject == "undefined"
Objects == {"o1", "o2"}
NoContainer == "none"
Containers == {"c1", "c2", "c3"}

\* this._shareScope of each container entry module: c1 and c3 share scope A.
ContainerShareScope(c) == IF c = "c2" THEN "B" ELSE "A"

InitializerIds == 1..NumInitializers

ConfigConflictMessage ==
    "Container initialization failed as it has already been initialized with a different share scope"

----------------------------------------------------------------------------
\* The emitted init(shareScope, initScope), up to its tail call.
\*   if (!S) return;
\*   var oldScope = S[name];
\*   if (oldScope && oldScope !== shareScope) throw new Error(...);
\*   S[name] = shareScope;
\*   return I(name, initScope);
initSwappedLines(hasS, S, name, shareScope, iScope) ==
    IF ~hasS THEN [kind |-> "noop", S |-> S, message |-> "", initScope |-> iScope]
    ELSE LET oldScope == S[name]
             S2 == [S EXCEPT ![name] = shareScope]
         IN IF oldScope # NoObject /\ oldScope # shareScope
            THEN [kind |-> "threw", S |-> S2, message |-> ConfigConflictMessage,
                  initScope |-> iScope]
            ELSE [kind |-> "call", S |-> S2, message |-> "", initScope |-> iScope]

initThrowsWhenBound(hasS, S, name, shareScope, iScope) ==
    IF ~hasS THEN [kind |-> "noop", S |-> S, message |-> "", initScope |-> iScope]
    ELSE LET oldScope == S[name]
         IN IF oldScope # NoObject
            THEN [kind |-> "threw", S |-> S, message |-> ConfigConflictMessage,
                  initScope |-> iScope]
            ELSE [kind |-> "call", S |-> [S EXCEPT ![name] = shareScope],
                  message |-> "", initScope |-> iScope]

initDropsInitScope(hasS, S, name, shareScope, iScope) ==
    IF ~hasS THEN [kind |-> "noop", S |-> S, message |-> "", initScope |-> iScope]
    ELSE LET oldScope == S[name]
         IN IF oldScope # NoObject /\ oldScope # shareScope
            THEN [kind |-> "threw", S |-> S, message |-> ConfigConflictMessage,
                  initScope |-> iScope]
            ELSE [kind |-> "call", S |-> [S EXCEPT ![name] = shareScope],
                  message |-> "", initScope |-> {}]

init(hasS, S, name, shareScope, iScope) ==
    IF ~hasS THEN [kind |-> "noop", S |-> S, message |-> "", initScope |-> iScope]
    ELSE LET oldScope == S[name]
         IN IF oldScope # NoObject /\ oldScope # shareScope
            THEN [kind |-> "threw", S |-> S, message |-> ConfigConflictMessage,
                  initScope |-> iScope]
            ELSE [kind |-> "call", S |-> [S EXCEPT ![name] = shareScope],
                  message |-> "", initScope |-> iScope]

\* initializeSharing(name, initScope), entry: the cycle guard, the ledger
\* update and the once-only check; "run" means the initializers are to run.
initializeSharing(phase, name, iScope) ==
    IF name \in iScope
    THEN [kind |-> "cycle", initScope |-> iScope]
    ELSE IF phase[name] = "initialized"
         THEN [kind |-> "done", initScope |-> iScope \cup {name}]
         ELSE [kind |-> "run", initScope |-> iScope \cup {name}]

InitializersOf(name) == {i \in InitializerIds : initializers[i].scope = name}

Min(s) == CHOOSE x \in s : \A y \in s : x <= y

----------------------------------------------------------------------------
\* One invocation of a container's init, outermost (outer = TRUE) or made by
\* an initializer, together with the entry of initializeSharing it ends in.
\* `base` is the stack the invocation returns to.
Invoke(c, shareScope, iScope, base, outer) ==
    LET name == ContainerShareScope(c)
        r == init(hasShareScopeMap, shareScopeMap, name, shareScope, iScope)
        e == initializeSharing(initPhase, name, r.initScope)
        pushes == r.kind = "call" /\ e.kind = "run"
        returns == r.kind = "noop" \/ (r.kind = "call" /\ e.kind # "run")
    IN /\ pushes => Len(base) < MaxDepth
       /\ shareScopeMap' = r.S
       /\ lastInitCall' = [kind |-> r.kind, container |-> c, name |-> name,
                           shareScope |-> shareScope,
                           oldScope |-> shareScopeMap[name],
                           message |-> r.message, slotAfter |-> r.S[name],
                           defined |-> hasShareScopeMap]
       /\ initScope' = IF r.kind = "call" THEN e.initScope ELSE iScope
       /\ initPhase' = IF pushes
                       THEN [initPhase EXCEPT ![name] = "initializing"]
                       ELSE initPhase
       /\ stack' = IF r.kind = "threw" THEN <<>>
                   ELSE IF pushes
                        THEN Append(base, [name |-> name,
                                           pending |-> InitializersOf(name)])
                        ELSE base
       /\ aborted' = IF r.kind = "threw"
                     THEN aborted \cup {base[k].name : k \in 1..Len(base)}
                     ELSE aborted
       /\ guardHit' = IF outer THEN FALSE
                      ELSE guardHit \/ (r.kind = "call" /\ e.kind = "cycle")
       /\ topCall' =
            IF outer
            THEN [container |-> c, name |-> name, shareScope |-> shareScope,
                  repeat |-> hasShareScopeMap /\ shareScopeMap[name] = shareScope
                             /\ initPhase[name] = "initialized",
                  preS |-> shareScopeMap, prePhase |-> initPhase,
                  preRan |-> ran, preRegistered |-> registered,
                  outcome |-> IF r.kind = "threw" THEN "threw"
                              ELSE IF returns THEN "returned" ELSE "running"]
            ELSE [topCall EXCEPT !.outcome =
                    IF r.kind = "threw" THEN "threw" ELSE @]

\* An outermost call init(shareScope, []) of container c.
CallInit(c, shareScope) ==
    /\ stack = <<>>
    /\ calls < MaxCalls
    /\ calls' = calls + 1
    /\ Invoke(c, shareScope, {}, <<>>, TRUE)
    /\ UNCHANGED <<hasShareScopeMap, initializers, ran, registered>>
    /\ UNCHANGED <<getVars, remoteVars, consumeVars, shareVars, buildVars>>

\* The next registered initializer of the scope on top of the stack runs: it
\* registers its version and, when it stands for a container, calls that
\* container's init with this scope's object and the chain's initScope.
RunInitializer ==
    /\ stack # <<>>
    /\ LET top == stack[Len(stack)]
       IN /\ top.pending # {}
          /\ LET i == Min(top.pending)
                 rest == [stack EXCEPT ![Len(stack)].pending = @ \ {i}]
                 target == initializers[i].target
             IN /\ ran' = [ran EXCEPT ![i] = @ + 1]
                /\ registered' = [registered EXCEPT ![top.name] = @ \cup {i}]
                /\ IF target = NoContainer
                   THEN /\ stack' = rest
                        /\ UNCHANGED <<shareScopeMap, initPhase, initScope,
                                       lastInitCall, topCall, aborted, guardHit>>
                   ELSE Invoke(target, shareScopeMap[top.name], initScope,
                               rest, FALSE)
    /\ UNCHANGED <<hasShareScopeMap, initializers, calls>>
    /\ UNCHANGED <<getVars, remoteVars, consumeVars, shareVars, buildVars>>

\* All initializers of the scope on top of the stack have run: the scope is
\* initialized and initializeSharing returns to its caller.
FinishScope ==
    /\ stack # <<>>
    /\ LET top == stack[Len(stack)]
       IN /\ top.pending = {}
          /\ initPhase' = [initPhase EXCEPT ![top.name] = "initialized"]
          /\ stack' = SubSeq(stack, 1, Len(stack) - 1)
          /\ topCall' = [topCall EXCEPT !.outcome =
                            IF Len(stack) = 1 THEN "returned" ELSE @]
    /\ UNCHANGED <<hasShareScopeMap, shareScopeMap, initializers, ran,
                   registered, initScope, calls, lastInitCall, aborted, guardHit>>
    /\ UNCHANGED <<getVars, remoteVars, consumeVars, shareVars, buildVars>>

HandshakeFrom(hasS, inits) ==
    /\ hasShareScopeMap = hasS
    /\ shareScopeMap = [n \in ScopeNames |-> NoObject]
    /\ initPhase = [n \in ScopeNames |-> "absent"]
    /\ initializers = inits
    /\ ran = [i \in InitializerIds |-> 0]
    /\ registered = [n \in ScopeNames |-> {}]
    /\ initScope = {}
    /\ stack = <<>>
    /\ calls = 0
    /\ lastInitCall = [kind |-> "none", container |-> NoContainer, name |-> "A",
                       shareScope |-> NoObject, oldScope |-> NoObject,
                       message |-> "", slotAfter |-> NoObject, defined |-> FALSE]
    /\ topCall = [container |-> NoContainer, name |-> "A", shareScope |-> NoObject,
                  repeat |-> FALSE, preS |-> shareScopeMap, prePhase |-> initPhase,
                  preRan |-> ran, preRegistered |-> registered, outcome |-> "none"]
    /\ aborted = {}
    /\ guardHit = FALSE

\* Any graph of initializers; without a share scope map init does nothing,
\* whatever the graph, so one graph stands for all.
HandshakeStart ==
    \/ \E inits \in [InitializerIds ->
                      [scope : ScopeNames, target : Containers \cup {NoContainer}]] :
          HandshakeFrom(TRUE, inits)
    \/ HandshakeFrom(FALSE, [i \in InitializerIds |->
                               [scope |-> "A", target |-> "c2"]])

----------------------------------------------------------------------------
\* Container entry: moduleMap, get and the loaders.

MaxImports == 2
MaxGetCalls == 3

Undefined == "undefined"
GetScopes == {"g1", "g2"}
ExposedNames == {"./a", "./b"}
\* Names every object literal inherits from Object.prototype.
PrototypeNames == {"toString"}
GetNames == ExposedNames \cup PrototypeNames \cup {"missing"}

\* Import requests and the module each resolved to at build time
\* (moduleGraph.getModule(dep)); "./bad" did not resolve.
ImportRequests == {"./x", "./y", "./bad"}
NoModule == "null"
getModule(userRequest) ==
    IF userRequest = "./x" THEN "mx"
    ELSE IF userRequest = "./y" THEN "my" ELSE NoModule

ImportLists == UNION {[1..n -> ImportRequests] : n \in 1..MaxImports}

\* An expose entry [name, options]: "./a" without a custom chunk name,
\* "./b" with one.
ExposeA(import) == [name |-> "./a", import |-> import, chunkName |-> Undefined]
ExposeB(import) == [name |-> "./b", import |-> import, chunkName |-> "chunk-b"]

\* The expose lists of the model: one or two entries with distinct names.
ExposeLists ==
    {<<ExposeA(i)>> : i \in ImportLists}
    \cup {<<ExposeB(i)>> : i \in ImportLists}
    \cup {<<ExposeA(i), ExposeB(j)>> : i \in ImportLists, j \in ImportLists}

\* The own keys of the emitted moduleMap: modules[0].name of every block.
moduleMapKeys(exp) == {exp[k].name : k \in 1..Len(exp)}

ImportOf(exp, name) ==
    LET k == CHOOSE k \in 1..Len(exp) : exp[k].name = name IN exp[k].import

\* The expression the accessor evaluates: the comma expression
\* (require(m1), ..., require(mn)), whose value is that of its last operand.
accessorExpressionFirst(values) == [kind |-> "exports", items |-> <<values[1]>>]

accessorExpression(values) ==
    [kind |-> "exports", items |-> <<values[Len(values)]>>]

\* The loader emitted for one block: a function that throws the missing
\* module error when a dependency has no module, and otherwise returns the
\* block promise chained to the accessor.
loader(import) ==
    LET modules == [k \in 1..Len(import) |-> getModule(import[k])]
    IN IF \E k \in 1..Len(import) : modules[k] = NoModule
       THEN [kind |-> "threw", settles |-> "none", modules |-> <<>>,
             message |-> "Cannot find module"]
       ELSE [kind |-> "promise", settles |-> "loader", modules |-> modules,
             message |-> ""]

\* moduleMap[module](): an own key calls its loader, an inherited name calls
\* the inherited function (no promise), anything else is not callable.
callMember(exp, module) ==
    IF module \in moduleMapKeys(exp) THEN loader(ImportOf(exp, module))
    ELSE IF module \in PrototypeNames
         THEN [kind |-> "value", settles |-> "none", modules |-> <<>>,
               message |-> ""]
         ELSE [kind |-> "threw", settles |-> "none", modules |-> <<>>,
               message |-> "moduleMap[module] is not a function"]

missingModulePromise(module) ==
    [kind |-> "promise", settles |-> "rejected", modules |-> <<>>,
     message |-> "Module \"" \o module \o "\" does not exist in container."]

\* The conditional expression of get:
\*   hasOwnProperty(moduleMap, module) ? moduleMap[module]()
\*     : Promise.resolve().then(() => { throw new Error(...) })
getLookupWithIn(exp, module) ==
    IF module \in moduleMapKeys(exp) \cup PrototypeNames
    THEN callMember(exp, module)
    ELSE missingModulePromise(module)

getLookup(exp, module) ==
    IF module \in moduleMapKeys(exp)
    THEN callMember(exp, module)
    ELSE missingModulePromise(module)

NoResult == [kind |-> "none", settles |-> "none", modules |-> <<>>, message |-> ""]
NoPromise ==
    [state |-> "none", settles |-> "none", module |-> "", modules |-> <<>>,
     message |-> ""]
NoValue == [module |-> "", value |-> [kind |-> "none", items |-> <<>>]]

\* A promise of a loader whose block is still loading.
LoadPending(p) == p.state = "pending" /\ p.settles = "loader"

GetCallWithoutMarker(module, gs) ==
    /\ getPc = "idle"
    /\ getCalls < MaxGetCalls
    /\ getCalls' = getCalls + 1
    /\ getArgs' = [module |-> module, getScope |-> gs, moduleMap |-> exposes]
    /\ getPc' = "lookup"
    /\ UNCHANGED <<exposes, currentRemoteGetScope, getLocal, lastGet, promise,
                   required, accessorValue, blockLoads>>
    /\ UNCHANGED <<handshakeVars, remoteVars, consumeVars, shareVars, buildVars>>

\* get(module, getScope), first statement: the marker is set.
GetCall(module, gs) ==
    /\ getPc = "idle"
    /\ getCalls < MaxGetCalls
    /\ getCalls' = getCalls + 1
    /\ currentRemoteGetScope' = gs
    /\ getArgs' = [module |-> module, getScope |-> gs, moduleMap |-> exposes]
    /\ getPc' = "lookup"
    /\ UNCHANGED <<exposes, getLocal, lastGet, promise, required, accessorValue,
                   blockLoads>>
    /\ UNCHANGED <<handshakeVars, remoteVars, consumeVars, shareVars, buildVars>>

\* The lookup: its value goes to the local getScope; a loader that throws
\* ends the call there, the statements after it are not executed.
GetLookup ==
    /\ getPc = "lookup"
    /\ LET r == getLookup(exposes, getArgs.module)
       IN IF r.kind = "threw"
          THEN /\ getPc' = "idle"
               /\ lastGet' = r
               /\ promise' = NoPromise
               /\ blockLoads' = IF LoadPending(promise)
                                THEN [blockLoads EXCEPT ![promise.module] = @ + 1]
                                ELSE blockLoads
               /\ UNCHANGED getLocal
          ELSE /\ getPc' = "returning"
               /\ getLocal' = r
               /\ UNCHANGED <<lastGet, promise, blockLoads>>
    /\ UNCHANGED <<exposes, currentRemoteGetScope, getArgs, required,
                   accessorValue, getCalls>>
    /\ UNCHANGED <<handshakeVars, remoteVars, consumeVars, shareVars, buildVars>>

\* The marker is reset and the local is returned.
GetReturn ==
    /\ getPc = "returning"
    /\ currentRemoteGetScope' = Undefined
    /\ getPc' = "idle"
    /\ lastGet' = getLocal
    /\ promise' = IF getLocal.kind = "promise"
                  THEN [state |-> "pending", settles |-> getLocal.settles,
                        module |-> getArgs.module, modules |-> getLocal.modules,
                        message |-> getLocal.message]
                  ELSE NoPromise
    /\ blockLoads' = IF LoadPending(promise)
                     THEN [blockLoads EXCEPT ![promise.module] = @ + 1]
                     ELSE blockLoads
    /\ UNCHANGED <<exposes, getArgs, getLocal, required, accessorValue, getCalls>>
    /\ UNCHANGED <<handshakeVars, remoteVars, consumeVars, shareVars, buildVars>>

\* The returned promise settles: the missing-name promise rejects with its
\* message; the loader's promise fulfils with the accessor once the block's
\* chunks are loaded, or rejects when loading them fails.
SettlePromise ==
    /\ promise.state = "pending"
    /\ \/ /\ promise.settles = "rejected"
          /\ promise' = [promise EXCEPT !.state = "rejected"]
       \/ /\ promise.settles = "loader"
          /\ \E loaded \in BOOLEAN :
                promise' = [promise EXCEPT
                              !.state = IF loaded THEN "fulfilled" ELSE "rejected",
                              !.message = IF loaded THEN "" ELSE "ChunkLoadError"]
    /\ UNCHANGED <<exposes, currentRemoteGetScope, getPc, getArgs, getLocal,
                   lastGet, required, accessorValue, getCalls, blockLoads>>
    /\ UNCHANGED <<handshakeVars, remoteVars, consumeVars, shareVars, buildVars>>

\* The accessor the promise fulfilled with is invoked.
InvokeAccessor ==
    /\ promise.state = "fulfilled"
    /\ required' = promise.modules
    /\ accessorValue' = [module |-> promise.module,
                         value |-> accessorExpression(promise.modules)]
    /\ UNCHANGED <<exposes, currentRemoteGetScope, getPc, getArgs, getLocal,
                   lastGet, promise, getCalls, blockLoads>>
    /\ UNCHANGED <<handshakeVars, remoteVars, consumeVars, shareVars, buildVars>>

\* The load of a block started by an earlier call settles.
SettleEarlier(name) ==
    /\ blockLoads[name] > 0
    /\ blockLoads' = [blockLoads EXCEPT ![name] = @ - 1]
    /\ UNCHANGED <<exposes, currentRemoteGetScope, getPc, getArgs, getLocal,
                   lastGet, promise, required, accessorValue, getCalls>>
    /\ UNCHANGED <<handshakeVars, remoteVars, consumeVars, shareVars, buildVars>>

GetFrom(exp) ==
    /\ exposes = exp
    /\ currentRemoteGetScope = Undefined
    /\ getPc = "idle"
    /\ getArgs = [module |-> "missing", getScope |-> Undefined, moduleMap |-> exposes]
    /\ getLocal = NoResult
    /\ lastGet = NoResult
    /\ promise = NoPromise
    /\ required = <<>>
    /\ accessorValue = NoValue
    /\ getCalls = 0
    /\ blockLoads = [n \in ExposedNames |-> 0]

GetStart == \E exp \in ExposeLists : GetFrom(exp)

GetNext ==
    \/ \E module \in GetNames, gs \in GetScopes : GetCall(module, gs)
    \/ GetLookup
    \/ GetReturn
    \/ SettlePromise
    \/ InvokeAccessor
    \/ \E name \in ExposedNames : SettleEarlier(name)

----------------------------------------------------------------------------
\* Remote references: the factorize hook of ContainerReferencePlugin and the
\* load of a RemoteModule's targets.

MaxRequestLen == 3
MaxKeyLen == 3
MaxTargets == 3

\* Requests and keys are strings, modelled as sequences of characters.
Chars == {"a", "/", "-", "!"}
KeyChars == {"a", "/"}
Requests == UNION {[1..n -> Chars] : n \in 0..MaxRequestLen}
\* Remote keys are names: they neither start nor end with the separator.
Keys ==
    {k \in UNION {[1..n -> KeyChars] : n \in 1..MaxKeyLen} :
        k[1] # "/" /\ k[Len(k)] # "/"}

\* External targets are strings too, modelled as sequences of tokens: the
\* 9 characters "internal " are one token.
InternalMarker == "internal "
Targets == {<<"A">>, <<"B">>, <<InternalMarker, "./local">>}
ExternalLists == UNION {[1..n -> Targets] : n \in 1..MaxTargets}

startsWith(str, prefix) ==
    /\ Len(prefix) <= Len(str)
    /\ SubSeq(str, 1, Len(prefix)) = prefix

slice(str, from) == SubSeq(str, from + 1, Len(str))

includes(str, ch) == \E k \in 1..Len(str) : str[k] = ch

\* `webpack/container/reference/${key}${i ? `/fallback-${i}` : ""}`,
\* i counted from 0.
referenceName(key, i) ==
    <<"webpack/container/reference/">> \o key
        \o (IF i # 0 THEN <<"/fallback-", ToString(i)>> ELSE <<>>)

\* Number of the targets before position k that do not start with the marker.
RECURSIVE externalsBefore(_, _)
externalsBefore(external, k) ==
    IF k <= 1 THEN 0
    ELSE externalsBefore(external, k - 1)
         + (IF startsWith(external[k - 1], <<InternalMarker>>) THEN 0 ELSE 1)

\* The remoteExternals record built in apply: per remote, the non-internal
\* targets under reference names numbered by a counter that skips the
\* internal ones. A later assignment to the same name overwrites.
RECURSIVE remoteExternals(_)
remoteExternals(rs) ==
    IF rs = <<>> THEN <<>>
    ELSE LET before == remoteExternals(SubSeq(rs, 1, Len(rs) - 1))
             r == rs[Len(rs)]
             own == {k \in 1..Len(r.external) :
                        ~startsWith(r.external[k], <<InternalMarker>>)}
             ownNames == {referenceName(r.key, externalsBefore(r.external, k)) :
                            k \in own}
             names == {before[j].name : j \in 1..Len(before)}
             kept == SelectSeq(before, LAMBDA e : e.name \notin ownNames)
             SeqOf(S) == CHOOSE q \in [1..Cardinality(S) -> S] :
                            \A x \in S : \E j \in 1..Cardinality(S) : q[j] = x
             ownSeq == SeqOf(own)
         IN kept \o [j \in 1..Len(ownSeq) |->
                       [name |-> referenceName(r.key,
                                     externalsBefore(r.external, ownSeq[j])),
                        target |-> r.external[ownSeq[j]]]]

\* The test of the factorize hook for one remote key.
matchesKeyNoSeparator(req, key) == startsWith(req, key)

matchesKey(req, key) ==
    /\ startsWith(req, key)
    /\ \/ Len(req) = Len(key)
       \/ (Len(req) > Len(key) /\ req[Len(key) + 1] = "/")

\* Index of the first remote whose key matches, 0 when there is none or the
\* req includes "!".
matchIndex(rs, req) ==
    IF includes(req, "!") THEN 0
    ELSE LET hits == {k \in 1..Len(rs) : matchesKey(req, rs[k].key)}
         IN IF hits = {} THEN 0 ELSE Min(hits)

\* config.external.map((external, i) => ...): position i of the list, from 0.
moduleExternalsKeepsMarker(key, external) ==
    [k \in 1..Len(external) |->
        IF startsWith(external[k], <<InternalMarker>>)
        THEN external[k]
        ELSE referenceName(key, k - 1)]

moduleExternals(key, external) ==
    [k \in 1..Len(external) |->
        IF startsWith(external[k], <<InternalMarker>>)
        THEN slice(external[k], 1)
        ELSE referenceName(key, k - 1)]

NoRemoteModule ==
    [request |-> <<>>, externals |-> <<>>, internalRequest |-> <<>>,
     shareScope |-> ""]

\* new RemoteModule(request, externals, internalRequest, shareScope)
RemoteModule(req, config) ==
    [request |-> req,
     externals |-> moduleExternals(config.key, config.external),
     internalRequest |-> <<".">> \o slice(req, Len(config.key)),
     shareScope |-> config.shareScope]

\* The factorize hook, called for the request of the module being created.
Factorize ==
    /\ ~factorized.done
    /\ LET k == matchIndex(remotes, request)
       IN factorized' =
            [done |-> TRUE, index |-> k,
             module |-> IF k = 0 THEN NoRemoteModule
                        ELSE RemoteModule(request, remotes[k])]
    /\ UNCHANGED <<remotes, request, attempts, loadState>>
    /\ UNCHANGED <<handshakeVars, getVars, consumeVars, shareVars, buildVars>>

\* What a name of the module's target list loads: the target registered
\* under it with the externals mechanism, the in-graph request itself, or
\* nothing when the name is a reference name that was never registered.
Unregistered == <<"unregistered">>
loadedBy(name) ==
    LET reg == remoteExternals(remotes)
        hits == {j \in 1..Len(reg) : reg[j].name = name}
    IN IF hits # {} THEN reg[Min(hits)].target
       ELSE IF name[1] = "webpack/container/reference/" THEN Unregistered
            ELSE name

\* The next target of the module is attempted, in list order; the load of a
\* target may fail, and a name that loads nothing always fails. The module
\* is loaded by the first success and fails when its last target failed.
AttemptLoad ==
    /\ factorized.index # 0
    /\ loadState \in {"idle", "loading"}
    /\ LET i == Len(attempts) + 1
           name == factorized.module.externals[i]
           what == loadedBy(name)
       IN \E ok \in BOOLEAN :
            /\ what = Unregistered => ~ok
            /\ attempts' = Append(attempts, [name |-> name, loaded |-> what, ok |-> ok])
            /\ loadState' = IF ok THEN "loaded"
                            ELSE IF i = Len(factorized.module.externals)
                                 THEN "failed" ELSE "loading"
    /\ UNCHANGED <<remotes, request, factorized>>
    /\ UNCHANGED <<handshakeVars, getVars, consumeVars, shareVars, buildVars>>

RemoteFrom(rs, req) ==
    /\ remotes = rs
    /\ request = req
    /\ factorized = [done |-> FALSE, index |-> 0, module |-> NoRemoteModule]
    /\ attempts = <<>>
    /\ loadState = "idle"

RemoteAtRest ==
    RemoteFrom(<<[key |-> <<"a">>, external |-> <<<<"A">>>>,
                  shareScope |-> "default"]>>, <<"a">>)

----------------------------------------------------------------------------
\* Shared consumption: the tables of ConsumeSharedPlugin, its factorize and
\* createModule hooks and createConsumeSharedModule.

MaxConsumeLen == 3

\* Requests, keys and imports are strings, modelled as sequences of
\* characters; "a" stands for any letter, Backslash for the character \.
Backslash == "\\"
ConsumeChars == {"a", "/", ".", Backslash}
\* Requests with a package scope or a drive letter.
ScopedRequests == {<<"@", "a">>, <<"@", "a", "/", "a">>, <<"a", ":">>}
ConsumeRequests ==
    UNION {[1..n -> ConsumeChars] : n \in 0..MaxConsumeLen} \cup ScopedRequests

\* undefined, where a string is expected.
NoString == <<"undefined">>
\* A JavaScript condition on a string or undefined: "" is falsy too.
truthy(str) == str # NoString /\ str # <<>>

\* Required versions: undefined, or what parseRange made of a range text.
NoVersion == [kind |-> "undefined", text |-> <<>>]
RangeTexts == {<<"^", "1">>, <<"~", "2">>}
MalformedText == <<"^", "^">>

\* parseRange(text): a Range, or a parse error for a malformed text.
parseRange(text) ==
    IF text \in RangeTexts THEN [kind |-> "range", text |-> text]
    ELSE [kind |-> "ParseError", text |-> text]

\* The dependency classes dependencies[0] may have.
DependencyKinds ==
    {"ImportDependency", "ConsumeSharedFallbackDependency",
     "ProvideForSharedDependency"}

isSharingDependencyFallbackOnly(dep) ==
    dep = "ConsumeSharedFallbackDependency"

\* dependencies[0] instanceof ConsumeSharedFallbackDependency ||
\* dependencies[0] instanceof ProvideForSharedDependency
isSharingDependency(dep) ==
    dep \in {"ConsumeSharedFallbackDependency", "ProvideForSharedDependency"}

\* A table is a Map: its entries in insertion order, keys distinct.
UnsetTable == [set |-> FALSE, entries |-> <<>>]
Table(entries) == [set |-> TRUE, entries |-> entries]

\* Map.prototype.get: index of the entry of the key, 0 for undefined.
tableGet(table, key) ==
    LET hits == {k \in 1..Len(table.entries) : table.entries[k].key = key}
    IN IF hits = {} THEN 0 ELSE Min(hits)

\* The options the prefix branch hands to createConsumeSharedModule:
\*   { ...options,
\*     import: options.import ? options.import + remainder : undefined,
\*     shareKey: options.shareKey + remainder }
prefixedOptionsKeepsKey(options, req, prefix) ==
    LET remainder == slice(req, Len(prefix))
    IN [options EXCEPT
          !.import = IF truthy(options.import) THEN options.import \o remainder
                     ELSE NoString]

prefixedOptions(options, req, prefix) ==
    LET remainder == slice(req, Len(prefix))
    IN [options EXCEPT
          !.import = IF truthy(options.import) THEN options.import \o remainder
                     ELSE NoString,
          !.shareKey = options.shareKey \o remainder]

NoOptions ==
    [import |-> NoString, shareScope |-> "", shareKey |-> NoString,
     requiredVersion |-> NoVersion, packageName |-> NoString,
     strictVersion |-> FALSE, singleton |-> FALSE, eager |-> FALSE]

\* isRequiredVersion(str): the string looks like a version range.
isRequiredVersion(str) ==
    /\ Len(str) >= 1
    /\ \/ str[1] \in {"0", "1", "2", "^", "=", "v", "<", ">", "~"}
       \/ (Len(str) = 1 /\ str[1] \in {"*", "x", "X"})

\* The values a field of a configured item may have besides a string.
Absent == <<"undefined">>
FalseValue == <<"false">>
FalseVersion == [kind |-> "false", text |-> <<>>]

\* The first normalizer of the constructor, for an item that is a string:
\* the key itself or a request, or a version for the key.
normalizeSimple(item, key, scopeOption) ==
    IF item = key \/ ~isRequiredVersion(item)
    THEN [import |-> key,
          shareScope |-> IF scopeOption # "" THEN scopeOption ELSE "default",
          shareKey |-> key, requiredVersion |-> NoVersion,
          packageName |-> NoString, strictVersion |-> FALSE,
          singleton |-> FALSE, eager |-> FALSE]
    ELSE [import |-> key,
          shareScope |-> IF scopeOption # "" THEN scopeOption ELSE "default",
          shareKey |-> key, requiredVersion |-> parseRange(item),
          packageName |-> NoString, strictVersion |-> TRUE,
          singleton |-> FALSE, eager |-> FALSE]

\* The second normalizer, for an item that is an options object.
normalizeOptions(item, key, scopeOption) ==
    [import |-> IF item.import = FalseValue THEN NoString
                ELSE IF truthy(item.import) THEN item.import ELSE key,
     shareScope |-> IF item.shareScope # "" THEN item.shareScope
                    ELSE IF scopeOption # "" THEN scopeOption ELSE "default",
     shareKey |-> IF truthy(item.shareKey) THEN item.shareKey ELSE key,
     requiredVersion |->
        IF item.requiredVersion = Absent THEN NoVersion
        ELSE IF item.requiredVersion = FalseValue THEN FalseVersion
        ELSE parseRange(item.requiredVersion),
     strictVersion |->
        IF item.strictVersion \in {"true", "false"}
        THEN item.strictVersion = "true"
        ELSE item.import # FalseValue /\ ~item.singleton,
     packageName |-> item.packageName,
     singleton |-> item.singleton,
     eager |-> item.eager]

\* parseOptions(options.consumes, normalizeSimple, normalizeOptions): an item
\* that is a string goes to the first normalizer, an object to the second.
normalizeConsume(entry, scopeOption) ==
    [key |-> entry.key,
     options |-> IF entry.item.type = "string"
                 THEN normalizeSimple(entry.item.value, entry.key, scopeOption)
                 ELSE normalizeOptions(entry.item, entry.key, scopeOption)]

parseConsumes(raw, scopeOption) ==
    [k \in 1..Len(raw) |-> normalizeConsume(raw[k], scopeOption)]

\* The body of the factorize hook after the promise: which branch takes the
\* request, and the options createConsumeSharedModule is called with.
factorizeMatchPrefixFirst(unresolved, prefixed, dep, req) ==
    LET e == tableGet(unresolved, req)
        hits == {k \in 1..Len(prefixed.entries) :
                    startsWith(req, prefixed.entries[k].key)}
    IN IF isSharingDependency(dep)
       THEN [tier |-> "skipped", index |-> 0, options |-> NoOptions]
       ELSE IF hits # {}
       THEN LET k == Min(hits)
            IN [tier |-> "prefix", index |-> k,
                options |-> prefixedOptions(prefixed.entries[k].options, req,
                                            prefixed.entries[k].key)]
       ELSE IF e # 0
       THEN [tier |-> "exact", index |-> e,
             options |-> unresolved.entries[e].options]
       ELSE [tier |-> "none", index |-> 0, options |-> NoOptions]

factorizeMatch(unresolved, prefixed, dep, req) ==
    LET e == tableGet(unresolved, req)
        hits == {k \in 1..Len(prefixed.entries) :
                    startsWith(req, prefixed.entries[k].key)}
    IN IF isSharingDependency(dep)
       THEN [tier |-> "skipped", index |-> 0, options |-> NoOptions]
       ELSE IF e # 0
       THEN [tier |-> "exact", index |-> e,
             options |-> unresolved.entries[e].options]
       ELSE IF hits # {}
       THEN LET k == Min(hits)
            IN [tier |-> "prefix", index |-> k,
                options |-> prefixedOptions(prefixed.entries[k].options, req,
                                            prefixed.entries[k].key)]
       ELSE [tier |-> "none", index |-> 0, options |-> NoOptions]

\* The body of the createModule hook: the resolved table is asked for the
\* resource.
createModuleMatch(resolved, dep, res) ==
    LET e == tableGet(resolved, res)
    IN IF isSharingDependency(dep)
       THEN [tier |-> "skipped", index |-> 0, options |-> NoOptions]
       ELSE IF e # 0
       THEN [tier |-> "resolved", index |-> e,
             options |-> resolved.entries[e].options]
       ELSE [tier |-> "none", index |-> 0, options |-> NoOptions]

\* Character classes of the regular expressions below.
isLetter(c) == c = "a"
isSeparator(c) == c = "/" \/ c = Backslash

\* /^(\/|[A-Za-z]:|\\\\)/.test(str)
isAbsoluteRequest(str) ==
    /\ Len(str) >= 1
    /\ \/ str[1] = "/"
       \/ (Len(str) >= 2 /\ isLetter(str[1]) /\ str[2] = ":")
       \/ (Len(str) >= 2 /\ str[1] = Backslash /\ str[2] = Backslash)

\* /^(\.\.?(\/|$)|\/|[A-Za-z]:|\\\\)/.test(str)
isDirectRequest(str) ==
    \/ isAbsoluteRequest(str)
    \/ /\ Len(str) >= 1
       /\ str[1] = "."
       /\ \/ Len(str) = 1
          \/ str[2] = "/"
          \/ (str[2] = "." /\ (Len(str) = 2 \/ str[3] = "/"))

\* Length of the longest run of non-separator characters from position k.
RECURSIVE runLength(_, _)
runLength(str, k) ==
    IF k > Len(str) \/ isSeparator(str[k]) THEN 0
    ELSE 1 + runLength(str, k + 1)

\* /^((?:@[^\\/]+[\\/])?[^\\/]+)/.exec(request): match[0], or NoString when
\* there is no match.
extractPackageName(str) ==
    LET scope == IF Len(str) >= 1 /\ str[1] = "@" THEN runLength(str, 2) ELSE 0
        name == IF scope >= 1 /\ Len(str) >= scope + 2
                   /\ isSeparator(str[scope + 2])
                THEN runLength(str, scope + 3) ELSE 0
        plain == runLength(str, 1)
    IN IF name >= 1 THEN SubSeq(str, 1, scope + 2 + name)
       ELSE IF plain >= 1 THEN SubSeq(str, 1, plain)
       ELSE NoString

\* Description files (package.json): the ranges listed for package "a".
\* A listed value may be something else than a string.
PackageA == <<"a">>
NotAString == <<"[object Object]">>
NothingListed == <<>>
DescriptionFiles ==
    {[dependencies |-> NothingListed, devDependencies |-> NothingListed,
      peerDependencies |-> NothingListed],
     [dependencies |-> (PackageA :> <<"^", "1">>),
      devDependencies |-> (PackageA :> <<"~", "2">>),
      peerDependencies |-> NothingListed],
     [dependencies |-> NothingListed, devDependencies |-> NothingListed,
      peerDependencies |-> (PackageA :> <<"~", "2">>)],
     [dependencies |-> NothingListed,
      devDependencies |-> (PackageA :> MalformedText),
      peerDependencies |-> NothingListed],
     [dependencies |-> (PackageA :> NotAString),
      devDependencies |-> NothingListed, peerDependencies |-> NothingListed]}

\* getRequiredVersionFromDescriptionFile(data, packageName): the value listed
\* in dependencies, devDependencies or peerDependencies, in that preference.
NotListed == <<"undefined">>
getRequiredVersionFromDescriptionFile(data, packageName) ==
    IF packageName \in DOMAIN data.dependencies
    THEN data.dependencies[packageName]
    ELSE IF packageName \in DOMAIN data.devDependencies
    THEN data.devDependencies[packageName]
    ELSE IF packageName \in DOMAIN data.peerDependencies
    THEN data.peerDependencies[packageName]
    ELSE NotListed

isStringValue(v) == v # NotListed /\ v # NotAString

\* requiredVersionWarning(details): the warning pushed to the compilation.
requiredVersionWarning(req, details) ==
    [message |->
        "No required version specified and unable to automatically determine one. "
            \o details,
     file |-> <<"shared module ">> \o req]

\* The error pushed when the fallback cannot be resolved.
fallbackError(req) ==
    [type |-> "ModuleNotFoundError",
     name |-> <<"resolving fallback for shared module ">> \o req]

CompilerContext == "compiler.context"
IssuerContext == "issuer"

NoLookup == [state |-> "none", result |-> NoString]
NoCreation ==
    [active |-> FALSE, tier |-> "none", request |-> NoString,
     config |-> NoOptions, directFallback |-> FALSE,
     fallback |-> NoLookup,
     version |-> [state |-> "none", result |-> NoVersion,
                  packageName |-> NoString, failure |-> "none"],
     descriptionReads |-> 0, settled |-> <<>>]

\* The first promise of createConsumeSharedModule, up to the call of the
\* resolver: without an import it resolves with undefined at once.
fallbackLookup(config) ==
    IF ~truthy(config.import)
    THEN [state |-> "done", result |-> NoString]
    ELSE [state |-> "pending", result |-> NoString]

\* The second promise, up to the call of getDescriptionFile: a configured
\* required version is taken as it is; otherwise the package name is the
\* configured one or extracted from the request, and an absolute request
\* gets none.
versionLookupInfersAlways(req, config) ==
    LET packageName == IF config.packageName # NoString THEN config.packageName
                       ELSE extractPackageName(req)
    IN IF config.packageName = NoString /\ isAbsoluteRequest(req)
       THEN [state |-> "done", result |-> NoVersion,
             packageName |-> NoString, failure |-> "none", warning |-> ""]
       ELSE IF packageName = NoString
       THEN [state |-> "done", result |-> NoVersion,
             packageName |-> NoString, failure |-> "no package name",
             warning |-> "Unable to extract the package name from request."]
       ELSE [state |-> "pending", result |-> NoVersion,
             packageName |-> packageName, failure |-> "none", warning |-> ""]

versionLookupInfersForPaths(req, config) ==
    IF config.requiredVersion # NoVersion
    THEN [state |-> "done", result |-> config.requiredVersion,
          packageName |-> NoString, failure |-> "none", warning |-> ""]
    ELSE LET packageName ==
                 IF config.packageName # NoString THEN config.packageName
                 ELSE extractPackageName(req)
         IN IF packageName = NoString
            THEN [state |-> "done", result |-> NoVersion,
                  packageName |-> NoString, failure |-> "no package name",
                  warning |-> "Unable to extract the package name from request."]
            ELSE [state |-> "pending", result |-> NoVersion,
                  packageName |-> packageName, failure |-> "none", warning |-> ""]

versionLookup(req, config) ==
    IF config.requiredVersion # NoVersion
    THEN [state |-> "done", result |-> config.requiredVersion,
          packageName |-> NoString, failure |-> "none", warning |-> ""]
    ELSE LET packageName ==
                 IF config.packageName # NoString THEN config.packageName
                 ELSE extractPackageName(req)
         IN IF config.packageName = NoString /\ isAbsoluteRequest(req)
            THEN [state |-> "done", result |-> NoVersion,
                  packageName |-> NoString, failure |-> "none", warning |-> ""]
            ELSE IF packageName = NoString
            THEN [state |-> "done", result |-> NoVersion,
                  packageName |-> NoString, failure |-> "no package name",
                  warning |-> "Unable to extract the package name from request."]
            ELSE [state |-> "pending", result |-> NoVersion,
                  packageName |-> packageName, failure |-> "none", warning |-> ""]

\* createConsumeSharedModule(context, request, config), up to the point where
\* both promises are created: what each lookup could do synchronously is done.
BeginCreate(tier, req, config) ==
    LET f == fallbackLookup(config)
        v == versionLookup(req, config)
    IN /\ creation' =
            [active |-> TRUE, tier |-> tier, request |-> req, config |-> config,
             directFallback |-> truthy(config.import)
                                /\ isDirectRequest(config.import),
             fallback |-> f,
             version |-> [state |-> v.state, result |-> v.result,
                          packageName |-> v.packageName,
                          failure |-> v.failure],
             descriptionReads |-> IF v.state = "pending" THEN 1 ELSE 0,
             settled |-> (IF f.state = "done" THEN <<"fallback">> ELSE <<>>)
                         \o (IF v.state = "done" THEN <<"version">> ELSE <<>>)]
       /\ warnings' = IF v.warning # ""
                      THEN Append(warnings, requiredVersionWarning(req, v.warning))
                      ELSE warnings
       /\ consumePc' = "creating"

\* resolveMatchedConfigs(compilation, this._consumes): every entry goes to
\* one table by its key: a relative key to `resolved` under the path it
\* resolves to (or nowhere, with an error, when it does not resolve), an
\* absolute key to `resolved`, a key that ends with "/" to `prefixed`, any
\* other key to `unresolved`.
isRelativeRequest(str) == isDirectRequest(str) /\ ~isAbsoluteRequest(str)

resolveRelative(key) ==
    IF Len(key) >= 3 /\ key[2] = "/" THEN slice(key, 1) ELSE NoString

classOf(key) ==
    IF isRelativeRequest(key)
    THEN (IF resolveRelative(key) = NoString THEN "failed" ELSE "resolved")
    ELSE IF isAbsoluteRequest(key) THEN "resolved"
    ELSE IF Len(key) >= 1 /\ key[Len(key)] = "/" THEN "prefixed"
    ELSE "unresolved"

resolveMatchedConfigs(configs) ==
    LET entry(c) == [key |-> IF isRelativeRequest(c.key)
                             THEN resolveRelative(c.key) ELSE c.key,
                     options |-> c.options]
        of(class) == SelectSeq(configs, LAMBDA c : classOf(c.key) = class)
        table(class) == [k \in 1..Len(of(class)) |-> entry(of(class)[k])]
    IN [resolved |-> table("resolved"), unresolved |-> table("unresolved"),
        prefixed |-> table("prefixed"),
        errors |-> [k \in 1..Len(of("failed")) |->
                      [type |-> "ModuleNotFoundError",
                       name |-> <<"shared module ">> \o of("failed")[k].key]]]

\* new ConsumeSharedPlugin(options): the configured items are normalized.
Constructor ==
    /\ consumePc = "new"
    /\ consumes' = parseConsumes(pluginOptions.consumes, pluginOptions.shareScope)
    /\ consumePc' = "start"
    /\ UNCHANGED <<pluginOptions, resolvedConsumes, unresolvedConsumes,
                   prefixedConsumes, resolveData, resource, creation, warnings,
                   errors, created>>
    /\ UNCHANGED <<handshakeVars, getVars, remoteVars, shareVars, buildVars>>

\* The promise of resolveMatchedConfigs fulfils: the three tables are set.
ResolveMatchedConfigs ==
    /\ consumePc # "new"
    /\ ~unresolvedConsumes.set
    /\ LET r == resolveMatchedConfigs(consumes)
       IN /\ resolvedConsumes' = Table(r.resolved)
          /\ unresolvedConsumes' = Table(r.unresolved)
          /\ prefixedConsumes' = Table(r.prefixed)
          /\ errors' = errors \o r.errors
    /\ UNCHANGED <<pluginOptions, consumes, resolveData, resource, consumePc, creation,
                   warnings, created>>
    /\ UNCHANGED <<handshakeVars, getVars, remoteVars, shareVars, buildVars>>

\* The factorize hook is called for the module: it returns promise.then(...),
\* its body is deferred until the promise has fulfilled.
FactorizeHook ==
    /\ consumePc = "start"
    /\ consumePc' = "deferred"
    /\ UNCHANGED <<pluginOptions, consumes, resolvedConsumes, unresolvedConsumes,
                   prefixedConsumes, resolveData, resource, creation, warnings,
                   errors, created>>
    /\ UNCHANGED <<handshakeVars, getVars, remoteVars, shareVars, buildVars>>

FactorizeBodyNotDeferred ==
    /\ consumePc = "deferred"
    /\ LET m == factorizeMatch(unresolvedConsumes, prefixedConsumes,
                               resolveData.dependency, resolveData.request)
       IN IF m.tier \in {"exact", "prefix"}
          THEN BeginCreate(m.tier, resolveData.request, m.options)
          ELSE /\ consumePc' = "resolve"
               /\ UNCHANGED <<creation, warnings>>
    /\ UNCHANGED <<pluginOptions, consumes, resolvedConsumes, unresolvedConsumes,
                   prefixedConsumes, resolveData, resource, errors, created>>
    /\ UNCHANGED <<handshakeVars, getVars, remoteVars, shareVars, buildVars>>

\* The deferred body of the factorize hook.
FactorizeBody ==
    /\ consumePc = "deferred"
    /\ unresolvedConsumes.set
    /\ LET m == factorizeMatch(unresolvedConsumes, prefixedConsumes,
                               resolveData.dependency, resolveData.request)
       IN IF m.tier \in {"exact", "prefix"}
          THEN BeginCreate(m.tier, resolveData.request, m.options)
          ELSE /\ consumePc' = "resolve"
               /\ UNCHANGED <<creation, warnings>>
    /\ UNCHANGED <<pluginOptions, consumes, resolvedConsumes, unresolvedConsumes,
                   prefixedConsumes, resolveData, resource, errors, created>>
    /\ UNCHANGED <<handshakeVars, getVars, remoteVars, shareVars, buildVars>>

\* The paths the factory may resolve a request to.
Resources == {<<"/", "a">>, <<"/", ".">>}

\* No plugin made a module in factorize: the factory resolves the request
\* (the resolution may fail, and then no module is created).
ResolveRequest ==
    /\ consumePc = "resolve"
    /\ \/ \E res \in Resources :
             /\ resource' = res
             /\ consumePc' = "createModule"
       \/ /\ consumePc' = "unresolved"
          /\ UNCHANGED resource
    /\ UNCHANGED <<pluginOptions, consumes, resolvedConsumes, unresolvedConsumes,
                   prefixedConsumes, resolveData, creation, warnings, errors,
                   created>>
    /\ UNCHANGED <<handshakeVars, getVars, remoteVars, shareVars, buildVars>>

\* The createModule hook, called with the resolved resource.
CreateModuleHook ==
    /\ consumePc = "createModule"
    /\ LET m == createModuleMatch(resolvedConsumes, resolveData.dependency,
                                  resource)
       IN IF m.tier = "resolved"
          THEN BeginCreate(m.tier, resource, m.options)
          ELSE /\ consumePc' = "normal"
               /\ UNCHANGED <<creation, warnings>>
    /\ UNCHANGED <<pluginOptions, consumes, resolvedConsumes, unresolvedConsumes,
                   prefixedConsumes, resolveData, resource, errors, created>>
    /\ UNCHANGED <<handshakeVars, getVars, remoteVars, shareVars, buildVars>>

\* What resolver.resolve yields for the import when it succeeds.
resolvedPath(context, import) == <<context, ":">> \o import

Settle(which) == Append(creation.settled, which)

\* The callback of resolver.resolve: an error is pushed to the compilation
\* and the promise resolves with undefined; otherwise with the result.
FallbackCallback ==
    /\ creation.fallback.state = "pending"
    /\ \E err \in BOOLEAN :
          /\ errors' = IF err THEN Append(errors, fallbackError(creation.request))
                       ELSE errors
          /\ creation' =
               [creation EXCEPT
                  !.fallback =
                     [state |-> "done",
                      result |-> IF err THEN NoString
                                 ELSE resolvedPath(
                                        IF creation.directFallback
                                        THEN CompilerContext ELSE IssuerContext,
                                        creation.config.import)],
                  !.settled = Settle("fallback")]
    /\ UNCHANGED <<pluginOptions, consumes, resolvedConsumes, unresolvedConsumes,
                   prefixedConsumes, resolveData, resource, consumePc, warnings,
                   created>>
    /\ UNCHANGED <<handshakeVars, getVars, remoteVars, shareVars, buildVars>>

\* The callback of getDescriptionFile, by what it is called with: an error,
\* a result without data, or the data of the description file found.
descriptionCallbackSilentNotFound(kind, data, packageName) ==
    IF kind = "err"
    THEN [result |-> NoVersion, failure |-> "unreadable",
          warning |-> "Unable to read description file"]
    ELSE IF kind = "nodata"
    THEN [result |-> NoVersion, failure |-> "not found",
          warning |-> ""]
    ELSE LET requiredVersion ==
                 getRequiredVersionFromDescriptionFile(data, packageName)
         IN IF ~isStringValue(requiredVersion)
            THEN [result |-> NoVersion, failure |-> "not listed",
                  warning |-> "Unable to find required version in description file"]
            ELSE [result |-> parseRange(requiredVersion),
                  failure |-> IF parseRange(requiredVersion).kind = "ParseError"
                              THEN "parse" ELSE "none",
                  warning |-> ""]

descriptionCallback(kind, data, packageName) ==
    IF kind = "err"
    THEN [result |-> NoVersion, failure |-> "unreadable",
          warning |-> "Unable to read description file"]
    ELSE IF kind = "nodata"
    THEN [result |-> NoVersion, failure |-> "not found",
          warning |-> "Unable to find description file"]
    ELSE LET requiredVersion ==
                 getRequiredVersionFromDescriptionFile(data, packageName)
         IN IF ~isStringValue(requiredVersion)
            THEN [result |-> NoVersion, failure |-> "not listed",
                  warning |-> "Unable to find required version in description file"]
            ELSE [result |-> parseRange(requiredVersion),
                  failure |-> IF parseRange(requiredVersion).kind = "ParseError"
                              THEN "parse" ELSE "none",
                  warning |-> ""]

\* A range that fails to parse: parseRange either throws, and the promise
\* is never resolved, or hands the error back as its value.
DescriptionCallback ==
    /\ creation.version.state = "pending"
    /\ \E kind \in {"err", "nodata", "data"}, data \in DescriptionFiles,
          thrown \in BOOLEAN :
          LET r == descriptionCallback(kind, data, creation.version.packageName)
              failed == r.failure = "parse"
          IN /\ thrown => failed
             /\ warnings' =
                   IF r.warning # ""
                   THEN Append(warnings,
                               requiredVersionWarning(creation.request, r.warning))
                   ELSE warnings
             /\ creation' =
                   [creation EXCEPT
                      !.version.state = IF thrown THEN "threw" ELSE "done",
                      !.version.result = IF thrown THEN NoVersion ELSE r.result,
                      !.version.failure = r.failure,
                      !.settled = IF thrown THEN @ ELSE Settle("version")]
    /\ UNCHANGED <<pluginOptions, consumes, resolvedConsumes, unresolvedConsumes,
                   prefixedConsumes, resolveData, resource, consumePc, errors,
                   created>>
    /\ UNCHANGED <<handshakeVars, getVars, remoteVars, shareVars, buildVars>>

\* new ConsumeSharedModule(context, { ...config, importResolved,
\*   import: importResolved ? config.import : undefined, requiredVersion })
ConsumeSharedModuleKeepsImport(context, config, importResolved, requiredVersion) ==
    [context |-> context,
     options |-> [import |-> config.import,
                  importResolved |-> importResolved,
                  shareScope |-> config.shareScope,
                  shareKey |-> config.shareKey,
                  requiredVersion |-> requiredVersion,
                  packageName |-> config.packageName,
                  strictVersion |-> config.strictVersion,
                  singleton |-> config.singleton,
                  eager |-> config.eager]]

ConsumeSharedModule(context, config, importResolved, requiredVersion) ==
    [context |-> context,
     options |-> [import |-> IF truthy(importResolved) THEN config.import
                             ELSE NoString,
                  importResolved |-> importResolved,
                  shareScope |-> config.shareScope,
                  shareKey |-> config.shareKey,
                  requiredVersion |-> requiredVersion,
                  packageName |-> config.packageName,
                  strictVersion |-> config.strictVersion,
                  singleton |-> config.singleton,
                  eager |-> config.eager]]

CreateJoinAfterFirst ==
    /\ consumePc = "creating"
    /\ creation.fallback.state = "done" \/ creation.version.state = "done"
    /\ created' =
         Append(created,
                ConsumeSharedModule(
                  IF creation.directFallback THEN CompilerContext
                  ELSE IssuerContext,
                  creation.config, creation.fallback.result,
                  creation.version.result))
    /\ consumePc' = "shared"
    /\ UNCHANGED <<pluginOptions, consumes, resolvedConsumes, unresolvedConsumes,
                   prefixedConsumes, resolveData, resource, creation, warnings,
                   errors>>
    /\ UNCHANGED <<handshakeVars, getVars, remoteVars, shareVars, buildVars>>

\* Promise.all([...]).then(...): both promises have resolved, the module is
\* constructed.
CreateJoin ==
    /\ consumePc = "creating"
    /\ creation.fallback.state = "done"
    /\ creation.version.state = "done"
    /\ created' =
         Append(created,
                ConsumeSharedModule(
                  IF creation.directFallback THEN CompilerContext
                  ELSE IssuerContext,
                  creation.config, creation.fallback.result,
                  creation.version.result))
    /\ consumePc' = "shared"
    /\ UNCHANGED <<pluginOptions, consumes, resolvedConsumes, unresolvedConsumes,
                   prefixedConsumes, resolveData, resource, creation, warnings,
                   errors>>
    /\ UNCHANGED <<handshakeVars, getVars, remoteVars, shareVars, buildVars>>

\* The configured items of the model, for a key.
StringItem(value) == [type |-> "string", value |-> value]
ObjectItem ==
    [type |-> "object", import |-> Absent, shareScope |-> "",
     shareKey |-> Absent, requiredVersion |-> Absent,
     strictVersion |-> "absent", singleton |-> FALSE, packageName |-> Absent,
     eager |-> FALSE]

ItemForms ==
    {"key", "version", "object", "requiredVersion", "packageName",
     "importFalse", "singleton", "notStrict", "strictSingleton", "import"}

ItemOf(form, key) ==
    CASE form = "key" -> StringItem(key)
      [] form = "version" -> StringItem(<<"^", "1">>)
      [] form = "object" -> ObjectItem
      [] form = "requiredVersion" ->
            [ObjectItem EXCEPT !.requiredVersion = <<"~", "2">>]
      [] form = "packageName" -> [ObjectItem EXCEPT !.packageName = PackageA]
      [] form = "importFalse" -> [ObjectItem EXCEPT !.import = FalseValue]
      [] form = "singleton" -> [ObjectItem EXCEPT !.singleton = TRUE]
      [] form = "notStrict" -> [ObjectItem EXCEPT !.strictVersion = "false"]
      [] form = "strictSingleton" ->
            [ObjectItem EXCEPT !.strictVersion = "true", !.singleton = TRUE]
      [] form = "import" -> [ObjectItem EXCEPT !.import = <<".", "/">>]

\* The lists of keys of the model: every kind of key alone, and pairs of a
\* prefix with a key it matches, in either order.
ConsumeKeyLists ==
    {<<<<"a">>>>, <<<<"a", "/">>>>, <<<<"a", "/", "a">>>>, <<<<"/", "a">>>>,
     <<<<".", "/", "a">>>>, <<<<Backslash, "a">>>>,
     <<<<"a", "/">>, <<"a", "/", "a">>>>, <<<<"a", "/", "a">>, <<"a", "/">>>>,
     <<<<".">>, <<"a">>>>}

ConsumeFrom(keys, form, req, dep) ==
    /\ pluginOptions =
         [consumes |-> [k \in 1..Len(keys) |->
                          [key |-> keys[k], item |-> ItemOf(form, keys[k])]],
          shareScope |-> ""]
    /\ consumes = <<>>
    /\ resolvedConsumes = UnsetTable
    /\ unresolvedConsumes = UnsetTable
    /\ prefixedConsumes = UnsetTable
    /\ resolveData = [context |-> IssuerContext, request |-> req,
                      dependency |-> dep]
    /\ resource = NoString
    /\ consumePc = "new"
    /\ creation = NoCreation
    /\ warnings = <<>>
    /\ errors = <<>>
    /\ created = <<>>

ConsumeStart ==
    \E keys \in ConsumeKeyLists, form \in ItemForms, req \in ConsumeRequests,
       dep \in DependencyKinds : ConsumeFrom(keys, form, req, dep)

ConsumeNext ==
    \/ Constructor
    \/ ResolveMatchedConfigs
    \/ FactorizeHook
    \/ FactorizeBody
    \/ ResolveRequest
    \/ CreateModuleHook
    \/ FallbackCallback
    \/ DescriptionCallback
    \/ CreateJoin

----------------------------------------------------------------------------
\* Version satisfaction and singleton arbitration at load time, for one share
\* key of one scope.

MaxRequests == 3

\* Versions are triples; a range is absent or ^v.
Versions == {<<17, 0, 2>>, <<17, 1, 0>>, <<18, 2, 0>>}
NoActive == <<>>
NoRange == [op |-> "any", version |-> <<>>]
Caret(v) == [op |-> "^", version |-> v]
Ranges == {NoRange, Caret(<<17, 0, 0>>), Caret(<<17, 1, 0>>), Caret(<<18, 0, 0>>)}

\* compare(v1, v2) as v1 < v2, segment by segment.
versionLt(v1, v2) ==
    \/ v1[1] < v2[1]
    \/ (v1[1] = v2[1] /\ v1[2] < v2[2])
    \/ (v1[1] = v2[1] /\ v1[2] = v2[2] /\ v1[3] < v2[3])

\* satisfies(version, range): ^v admits the versions of v's major that are
\* not lower than v; an absent range admits every version.
satisfies(version, range) ==
    \/ range.op = "any"
    \/ (version[1] = range.version[1] /\ ~versionLt(version, range.version))

highest(vs) == CHOOSE v \in vs : \A w \in vs : ~versionLt(v, w)

\* A consumer requests the key with a range and its flags: the version it
\* gets, the warnings emitted, and the version active afterwards.
resolveSharedStrictSingleton(records, act, range, singleton, strictVersion, fallback) ==
    LET fitting == {v \in records : satisfies(v, range)}
    IN IF singleton /\ act # NoActive
       THEN IF satisfies(act, range)
            THEN [outcome |-> "resolved", version |-> act, warned |-> 0,
                  active |-> act]
            ELSE IF strictVersion
            THEN [outcome |-> "threw", version |-> NoActive, warned |-> 0,
                  active |-> act]
            ELSE [outcome |-> "resolved", version |-> act, warned |-> 1,
                  active |-> act]
       ELSE IF records = {}
       THEN [outcome |-> IF fallback THEN "fallback" ELSE "threw",
             version |-> NoActive, warned |-> 0, active |-> act]
       ELSE IF fitting # {}
       THEN [outcome |-> "resolved", version |-> highest(fitting), warned |-> 0,
             active |-> IF singleton THEN highest(fitting) ELSE act]
       ELSE IF strictVersion
       THEN [outcome |-> "threw", version |-> NoActive, warned |-> 0,
             active |-> act]
       ELSE [outcome |-> "resolved", version |-> highest(records), warned |-> 1,
             active |-> act]

resolveShared(records, act, range, singleton, strictVersion, fallback) ==
    LET fitting == {v \in records : satisfies(v, range)}
    IN IF singleton /\ act # NoActive
       THEN [outcome |-> "resolved", version |-> act,
             warned |-> IF satisfies(act, range) THEN 0 ELSE 1,
             active |-> act]
       ELSE IF records = {}
       THEN [outcome |-> IF fallback THEN "fallback" ELSE "threw",
             version |-> NoActive, warned |-> 0, active |-> act]
       ELSE IF fitting # {}
       THEN [outcome |-> "resolved", version |-> highest(fitting), warned |-> 0,
             active |-> IF singleton THEN highest(fitting) ELSE act]
       ELSE IF strictVersion
       THEN [outcome |-> "threw", version |-> NoActive, warned |-> 0,
             active |-> act]
       ELSE [outcome |-> "resolved", version |-> highest(records), warned |-> 1,
             active |-> act]

\* A container registers a version of the key in the scope.
RegisterVersion(v) ==
    /\ v \notin offered
    /\ offered' = offered \cup {v}
    /\ UNCHANGED <<active, consoleWarnings, lastRequest>>
    /\ UNCHANGED <<handshakeVars, getVars, remoteVars, consumeVars, buildVars>>

\* A consumer requests the key.
RequestShared(range, singleton, strictVersion, fallback) ==
    /\ lastRequest.count < MaxRequests
    /\ LET r == resolveShared(offered, active, range, singleton, strictVersion,
                              fallback)
       IN /\ active' = r.active
          /\ consoleWarnings' = consoleWarnings + r.warned
          /\ lastRequest' =
               [count |-> lastRequest.count + 1, range |-> range,
                singleton |-> singleton, strictVersion |-> strictVersion,
                activeBefore |-> active, warningsBefore |-> consoleWarnings,
                outcome |-> r.outcome, version |-> r.version]
    /\ UNCHANGED offered
    /\ UNCHANGED <<handshakeVars, getVars, remoteVars, consumeVars, buildVars>>

ShareAtRest ==
    /\ offered = {}
    /\ active = NoActive
    /\ consoleWarnings = 0
    /\ lastRequest = [count |-> 0, range |-> NoRange, singleton |-> FALSE,
                      strictVersion |-> FALSE, activeBefore |-> NoActive,
                      warningsBefore |-> 0, outcome |-> "none",
                      version |-> NoActive]

ShareNext ==
    \/ \E v \in Versions : RegisterVersion(v)
    \/ \E range \in Ranges, singleton \in BOOLEAN, strictVersion \in BOOLEAN,
          fallback \in BOOLEAN :
          RequestShared(range, singleton, strictVersion, fallback)

----------------------------------------------------------------------------
\* ContainerEntryModule.build.

MaxBuilds == 3

NotBuilt == [built |-> FALSE, exportsType |-> "", strict |-> FALSE,
             topLevelDeclarations |-> {}]

\* new StaticExportsDependency(["get", "init"], false): the exports are a
\* list of names (true would stand for unknown exports), not mangleable.
StaticExportsDependency(exports, canMangle) ==
    [type |-> "StaticExportsDependency", exports |-> exports,
     canMangle |-> canMangle]

\* new ContainerExposedDependency(name, request) with its loc.
ContainerExposedDependency(name, userRequest, idx) ==
    [type |-> "ContainerExposedDependency", exposedName |-> name,
     userRequest |-> userRequest, loc |-> [name |-> name, index |-> idx]]

\* The block of one expose entry: its name option, its loc, the last import
\* as its request, and one dependency per import, idx counted from 0.
blockOfIndexFromOne(entry) ==
    [groupOptions |-> [name |-> entry.chunkName],
     loc |-> [name |-> entry.name],
     request |-> entry.import[Len(entry.import)],
     dependencies |->
        [i \in 1..Len(entry.import) |->
            ContainerExposedDependency(entry.name, entry.import[i], i)]]

blockOf(entry) ==
    [groupOptions |-> [name |-> entry.chunkName],
     loc |-> [name |-> entry.name],
     request |-> entry.import[Len(entry.import)],
     dependencies |->
        [i \in 1..Len(entry.import) |->
            ContainerExposedDependency(entry.name, entry.import[i], i - 1)]]

\* The edges after build: clearDependenciesAndBlocks(), then one addBlock
\* per expose entry and one addDependency.
buildWithoutClear(exp, oldBlocks, oldDependencies) ==
    [blocks |-> oldBlocks \o [k \in 1..Len(exp) |-> blockOf(exp[k])],
     dependencies |->
        Append(oldDependencies,
               StaticExportsDependency(<<"get", "init">>, FALSE))]

build(exp, oldBlocks, oldDependencies) ==
    LET cleared == [blocks |-> <<>>, dependencies |-> <<>>]
    IN [blocks |-> cleared.blocks \o [k \in 1..Len(exp) |-> blockOf(exp[k])],
        dependencies |->
           Append(cleared.dependencies,
                  StaticExportsDependency(<<"get", "init">>, FALSE))]

\* build(options, compilation, resolver, fs, callback)
Build ==
    /\ builds < MaxBuilds
    /\ builds' = builds + 1
    /\ buildMeta' = [built |-> TRUE, exportsType |-> "namespace",
                     strict |-> TRUE,
                     topLevelDeclarations |-> {"moduleMap", "get", "init"}]
    /\ LET r == build(exposes, blocks, dependencies)
       IN /\ blocks' = r.blocks
          /\ dependencies' = r.dependencies
    /\ UNCHANGED <<handshakeVars, getVars, remoteVars, consumeVars, shareVars>>

BuildAtRest ==
    /\ blocks = <<>>
    /\ dependencies = <<>>
    /\ buildMeta = NotBuilt
    /\ builds = 0

----------------------------------------------------------------------------
\* Specifications: one per part of the program, the other parts at rest.

HandshakeAtRest ==
    HandshakeFrom(TRUE, [i \in InitializerIds |->
                            [scope |-> "A", target |-> NoContainer]])

GetAtRest == GetFrom(<<ExposeA(<<"./x">>)>>)

ConsumeAtRest == ConsumeFrom(<<<<"a">>>>, "key", <<"a">>, "ImportDependency")

HandshakeInit ==
    /\ HandshakeStart /\ GetAtRest /\ RemoteAtRest /\ ConsumeAtRest /\ ShareAtRest
    /\ BuildAtRest

HandshakeNext ==
    \/ \E c \in Containers, o \in Objects \cup {NoObject} : CallInit(c, o)
    \/ RunInitializer
    \/ FinishScope

SpecHandshake == HandshakeInit /\ [][HandshakeNext]_vars

SpecHandshakeFair ==
    /\ HandshakeInit
    /\ [][HandshakeNext]_vars
    /\ WF_vars(RunInitializer)
    /\ WF_vars(FinishScope)

GetInit ==
    /\ GetStart /\ HandshakeAtRest /\ RemoteAtRest /\ ConsumeAtRest /\ ShareAtRest
    /\ BuildAtRest

SpecGet == GetInit /\ [][GetNext]_vars

\* Factorization of any request against one or two remotes with any keys.
RemoteLists ==
    {<<[key |-> k1, external |-> <<<<"A">>>>, shareScope |-> "default"]>> :
        k1 \in Keys}
    \cup {<<[key |-> k1, external |-> <<<<"A">>>>, shareScope |-> "default"],
            [key |-> k2, external |-> <<<<"B">>>>, shareScope |-> "other"]>> :
            k1 \in Keys, k2 \in Keys}

FactorizeInit ==
    /\ \E rs \in RemoteLists, req \in Requests : RemoteFrom(rs, req)
    /\ HandshakeAtRest
    /\ GetAtRest
    /\ ConsumeAtRest
    /\ ShareAtRest
    /\ BuildAtRest

FactorizeNext == Factorize

SpecFactorize == FactorizeInit /\ [][FactorizeNext]_vars

\* One remote with any list of targets: factorization and load.
RemoteInit ==
    /\ \E external \in ExternalLists, req \in Requests :
          RemoteFrom(<<[key |-> <<"a">>, external |-> external,
                        shareScope |-> "default"]>>, req)
    /\ HandshakeAtRest
    /\ GetAtRest
    /\ ConsumeAtRest
    /\ ShareAtRest
    /\ BuildAtRest

RemoteNext ==
    \/ Factorize
    \/ AttemptLoad

SpecRemote == RemoteInit /\ [][RemoteNext]_vars

\* The life of one module request against any configuration of the plugin.
ConsumeInit ==
    /\ ConsumeStart /\ HandshakeAtRest /\ GetAtRest /\ RemoteAtRest /\ ShareAtRest
    /\ BuildAtRest

\* Registrations and requests for one share key, in any order.
ShareInit ==
    /\ ShareAtRest /\ HandshakeAtRest /\ GetAtRest /\ RemoteAtRest
    /\ ConsumeAtRest /\ BuildAtRest

SpecShare == ShareInit /\ [][ShareNext]_vars

\* Builds of the container entry module of any expose list.
BuildInit ==
    /\ GetStart /\ BuildAtRest
    /\ HandshakeAtRest /\ RemoteAtRest /\ ConsumeAtRest /\ ShareAtRest

BuildNext == Build

SpecBuild == BuildInit /\ [][BuildNext]_vars

SpecConsume == ConsumeInit /\ [][ConsumeNext]_vars

----------------------------------------------------------------------------
\* Share scope handshake: properties.

\* C1: an invocation of init that finds the slot of its scope name holding an
\* object different from shareScope throws the exact ConfigConflict message,
\* and the slot still holds the previously bound object afterwards.
C1_ConflictThrowsAndKeepsSlot ==
    (/\ lastInitCall.kind # "none"
     /\ lastInitCall.defined
     /\ lastInitCall.oldScope # NoObject
     /\ lastInitCall.oldScope # lastInitCall.shareScope)
    => /\ lastInitCall.kind = "threw"
       /\ lastInitCall.message =
            "Container initialization failed as it has already been initialized with a different share scope"
       /\ lastInitCall.slotAfter = lastInitCall.oldScope
       /\ shareScopeMap[lastInitCall.name] = lastInitCall.oldScope

C1_Witness ==
    /\ lastInitCall.kind = "threw"
    /\ lastInitCall.oldScope = "o1"
    /\ lastInitCall.shareScope = "o2"
    /\ shareScopeMap[lastInitCall.name] = "o1"

PhaseRank(p) == IF p = "absent" THEN 0 ELSE IF p = "initializing" THEN 1 ELSE 2

\* C2: over any sequence of init calls by the containers of a scope name, a
\* slot bound to an object never holds another object nor becomes empty, and
\* the per-scope state only moves forward absent, initializing, initialized.
C2_BindingNeverChanges ==
    [][\A n \in ScopeNames :
          /\ shareScopeMap[n] # NoObject => shareScopeMap'[n] = shareScopeMap[n]
          /\ PhaseRank(initPhase[n]) <= PhaseRank(initPhase'[n])]_vars

C2_Witness ==
    /\ calls >= 2
    /\ lastInitCall.kind = "threw"
    /\ lastInitCall.container = "c3"
    /\ shareScopeMap["A"] = "o1"
    /\ initPhase["A"] = "initialized"

\* C3: an outermost init call made with the object its scope is already bound
\* to and initialized with returns normally and changes nothing: the binding,
\* the registered versions, the per-scope state and the number of runs of
\* every initializer are what they were before the call.
C3_SecondInitIsNoOp ==
    topCall.repeat
    => /\ topCall.outcome = "returned"
       /\ stack = <<>>
       /\ shareScopeMap = topCall.preS
       /\ initPhase = topCall.prePhase
       /\ registered = topCall.preRegistered
       /\ ran = topCall.preRan

C3_Witness ==
    /\ topCall.repeat
    /\ topCall.shareScope \in Objects
    /\ topCall.outcome = "returned"
    /\ \E i \in InitializersOf(topCall.name) : ran[i] = 1

\* C4: every outermost init call terminates, also on a cyclic initializer
\* graph: the chain of nested calls is never deeper than the number of scope
\* names, it always unwinds, and when it has returned every initializer of
\* every scope it went through has run exactly once (scopes whose
\* initialization an earlier ConfigConflict unwound excepted).
C4_ReturnedExactlyOnce ==
    topCall.outcome = "returned"
    => \A n \in initScope :
          /\ initPhase[n] = "initialized"
          /\ n \notin aborted => \A i \in InitializersOf(n) : ran[i] = 1

C4_NeverTwice ==
    \A i \in InitializerIds : initializers[i].scope \notin aborted => ran[i] <= 1

C4_CyclicInitTerminates ==
    /\ [](Len(stack) <= Cardinality(ScopeNames))
    /\ []C4_ReturnedExactlyOnce
    /\ []C4_NeverTwice
    /\ (stack # <<>>) ~> (stack = <<>>)

C4_Witness ==
    /\ topCall.outcome = "returned"
    /\ guardHit
    /\ initScope = {"A", "B"}
    /\ aborted = {}
    /\ \A i \in InitializerIds : ran[i] = 1 /\ initializers[i].target # NoContainer

----------------------------------------------------------------------------
\* Container entry get and loaders: properties.

GetFinished == getPc = "idle" /\ lastGet.kind # "none"

\* C5: for every name that is not an own key of moduleMap, names inherited
\* from the object prototype included, get returns a promise that rejects
\* with `Module "<name>" does not exist in container.`, and moduleMap is
\* what it was before the call.
C5_MissingNameRejects ==
    (GetFinished /\ getArgs.module \notin moduleMapKeys(getArgs.moduleMap))
    => /\ lastGet.kind = "promise"
       /\ promise.state \in {"pending", "rejected"}
       /\ promise.settles = "rejected"
       /\ promise.message =
            "Module \"" \o getArgs.module \o "\" does not exist in container."
       /\ getArgs.module = "missing" =>
            promise.message = "Module \"missing\" does not exist in container."
       /\ exposes = getArgs.moduleMap

C5_Witness ==
    /\ GetFinished
    /\ getArgs.module = "toString"
    /\ promise.state = "rejected"
    /\ promise.message = "Module \"toString\" does not exist in container."

\* C6: every get call returns a promise, the loader's or a rejected one: no
\* module-not-found failure, that of an exposed name with an import target
\* unresolved at build time included, is thrown synchronously out of get.
C6_GetAlwaysReturnsPromise ==
    GetFinished => lastGet.kind = "promise"

\* C7: the current-remote-get-scope marker equals getScope while get
\* performs its lookup, and it is undefined whenever no get call is
\* executing, however the last call ended.
C7_MarkerScopedToGet ==
    /\ getPc = "lookup" => currentRemoteGetScope = getArgs.getScope
    /\ getPc = "idle" => currentRemoteGetScope = Undefined

ExportsInOrder(import) == [k \in 1..Len(import) |-> getModule(import[k])]

\* C8 as stated: invoking the accessor yields the array of the n loaded
\* export objects, in the order the import targets were declared.
C8_AccessorYieldsArray ==
    accessorValue.module # ""
    => accessorValue.value =
         [kind |-> "array",
          items |-> ExportsInOrder(ImportOf(exposes, accessorValue.module))]

\* C8 as amended: for an exposed name whose import targets t1..tn all
\* resolved, invoking the accessor requires the n modules in the order the
\* targets were declared and yields the export object of the last one, tn.
C8_AccessorYieldsLastExport ==
    accessorValue.module # ""
    => LET import == ImportOf(exposes, accessorValue.module)
       IN /\ \A k \in 1..Len(import) : getModule(import[k]) # NoModule
          /\ required = ExportsInOrder(import)
          /\ accessorValue.value =
               [kind |-> "exports", items |-> <<getModule(import[Len(import)])>>]

C8_Witness ==
    /\ accessorValue.module = "./b"
    /\ ImportOf(exposes, "./b") = <<"./x", "./y">>
    /\ required = <<"mx", "my">>
    /\ accessorValue.value = [kind |-> "exports", items |-> <<"my">>]

----------------------------------------------------------------------------
\* Remote references: properties.

\* The request is the key, or the key followed by "/" and anything.
Routable(req, key) ==
    \/ req = key
    \/ /\ Len(req) > Len(key)
       /\ SubSeq(req, 1, Len(key) + 1) = key \o <<"/">>

\* C9 as stated: a request without "!" is turned into a RemoteModule for
\* remote key K if and only if it starts with K and ends there or goes on
\* with "/".
C9_RoutedIffKeyMatches ==
    (factorized.done /\ ~includes(request, "!"))
    => \A k \in 1..Len(remotes) :
          (factorized.index # 0
             /\ remotes[factorized.index].key = remotes[k].key)
          <=> Routable(request, remotes[k].key)

\* C9 as amended: a request without "!" is turned into a RemoteModule for
\* the first remote, in configuration order, whose key it starts with and
\* then ends or goes on with "/", and for that remote only; it is turned into
\* none when no key is such, so "a-" is never routed to key "a".
C9_RoutedToFirstMatchingKey ==
    (factorized.done /\ ~includes(request, "!"))
    => /\ \A k \in 1..Len(remotes) :
             factorized.index = k
             <=> /\ Routable(request, remotes[k].key)
                 /\ \A j \in 1..(k - 1) : ~Routable(request, remotes[j].key)
       /\ factorized.index = 0 <=> factorized.module = NoRemoteModule
       /\ factorized.index # 0 =>
             /\ factorized.module.request = request
             /\ factorized.module.shareScope = remotes[factorized.index].shareScope

C9_Witness ==
    /\ factorized.done
    /\ Len(remotes) = 2
    /\ remotes[1].key = <<"a">>
    /\ remotes[2].key = <<"a", "/", "a">>
    /\ request = <<"a", "/", "a">>
    /\ factorized.index = 1
    /\ factorized.module.internalRequest = <<".", "/", "a">>

ConfiguredTargets == remotes[factorized.index].external

StripMarker(target) ==
    IF target[1] = InternalMarker THEN Tail(target) ELSE target

\* C10: the targets of the remote a request was routed to are attempted
\* strictly in configured order, target i+1 only after target i failed, and
\* failure is reported only after the last target failed; three targets of
\* which the first two fail make exactly three loads.
C10_FallbackInConfiguredOrder ==
    factorized.index # 0
    => /\ Len(attempts) <= Len(ConfiguredTargets)
       /\ \A j \in 1..Len(attempts) :
             attempts[j].loaded = StripMarker(ConfiguredTargets[j])
       /\ \A j \in 1..(Len(attempts) - 1) : ~attempts[j].ok
       /\ loadState = "failed" =>
             /\ Len(attempts) = Len(ConfiguredTargets)
             /\ \A j \in 1..Len(attempts) : ~attempts[j].ok

\* C11: for every remote configuration, a target that begins with the marker
\* "internal " is never registered with the externals mechanism, and in the
\* target list of the RemoteModule it stands at its configured position with
\* the marker stripped, as an in-graph request and not a reference name.
C11_InternalTargetsStayInGraph ==
    /\ \A j \in 1..Len(remoteExternals(remotes)) :
          ~startsWith(remoteExternals(remotes)[j].target, <<InternalMarker>>)
    /\ factorized.index # 0 =>
          /\ Len(factorized.module.externals) = Len(ConfiguredTargets)
          /\ \A k \in 1..Len(ConfiguredTargets) :
                startsWith(ConfiguredTargets[k], <<InternalMarker>>)
                => /\ factorized.module.externals[k]
                        = SubSeq(ConfiguredTargets[k], 2, Len(ConfiguredTargets[k]))
                   /\ factorized.module.externals[k][1] # InternalMarker
                   /\ factorized.module.externals[k][1]
                        # "webpack/container/reference/"
                   /\ \A j \in 1..Len(remoteExternals(remotes)) :
                        remoteExternals(remotes)[j].name
                          # factorized.module.externals[k]

C11_Witness ==
    /\ factorized.index = 1
    /\ ConfiguredTargets = <<<<"A">>, <<InternalMarker, "./local">>, <<"B">>>>
    /\ factorized.module.externals[2] = <<"./local">>
    /\ Len(remoteExternals(remotes)) = 2

----------------------------------------------------------------------------
\* Shared consumption: properties.

TableKeys(table) == {table.entries[k].key : k \in 1..Len(table.entries)}

ExactKeyMatches == resolveData.request \in TableKeys(unresolvedConsumes)

PrefixMatches ==
    \E k \in 1..Len(prefixedConsumes.entries) :
       startsWith(resolveData.request, prefixedConsumes.entries[k].key)

FactorizeBodyRan == consumePc \notin {"new", "start", "deferred"}

\* C12: the three tiers are tried in order. A request equal to a key of the
\* unresolved table is handled by the exact match, with that entry's options,
\* also when a configured prefix matches it; the prefix match is used only
\* when no exact key matches; and the resolved table is asked, for the
\* resolved path, only when neither of the first two tiers matched.
C12_TiersTriedInOrder ==
    (FactorizeBodyRan /\ ~isSharingDependency(resolveData.dependency))
    => /\ ExactKeyMatches =>
             /\ creation.tier = "exact"
             /\ creation.request = resolveData.request
             /\ creation.config =
                  unresolvedConsumes.entries[
                     tableGet(unresolvedConsumes, resolveData.request)].options
       /\ creation.tier = "prefix" <=> (~ExactKeyMatches /\ PrefixMatches)
       /\ (creation.tier = "resolved"
             \/ consumePc \in {"resolve", "createModule", "normal", "unresolved"})
          => (~ExactKeyMatches /\ ~PrefixMatches)
       /\ creation.tier = "resolved" =>
             /\ creation.request = resource
             /\ resource \in TableKeys(resolvedConsumes)

C12_Witness ==
    /\ consumePc = "shared"
    /\ creation.tier = "exact"
    /\ resolveData.request = <<"a", "/", "a">>
    /\ ExactKeyMatches
    /\ PrefixMatches
    /\ created[1].options.shareKey = <<"a", "/", "a">>

\* The prefix entry a request was matched by, and what follows the prefix.
MatchedPrefix ==
    prefixedConsumes.entries[
       Min({k \in 1..Len(prefixedConsumes.entries) :
               startsWith(resolveData.request, prefixedConsumes.entries[k].key)})]

Remainder ==
    SubSeq(resolveData.request, Len(MatchedPrefix.key) + 1,
           Len(resolveData.request))

ErrorsOfOthers ==
    (IF unresolvedConsumes.set THEN Len(resolveMatchedConfigs(consumes).errors)
     ELSE 0)
    + (IF creation.fallback.state = "done" /\ truthy(creation.config.import)
          /\ creation.fallback.result = NoString
       THEN 1 ELSE 0)

InferenceFailedWithWarning ==
    /\ Len(warnings) = 1
    /\ warnings[1].file = <<"shared module ">> \o creation.request
    /\ Len(errors) = ErrorsOfOthers
    /\ creation.version.state = "done"
    /\ creation.version.result = NoVersion
    /\ consumePc = "shared" =>
          /\ Len(created) = 1
          /\ created[1].options.requiredVersion = NoVersion

\* C14 as stated: with no required version configured, any failure of the
\* inference (no package name in the request, description file unreadable
\* or not found, package not listed, or the listed range failing to parse)
\* adds one warning and no error, and the module is still created, with no
\* required version.
C14_InferenceFailureWarns ==
    (creation.active /\ creation.version.failure # "none")
    => /\ creation.config.requiredVersion = NoVersion
       /\ InferenceFailedWithWarning

\* C14 as amended: the failures that add one warning and no error, and
\* leave the module created with no required version, are: no package name
\* in the request, description file unreadable or not found, and package
\* not listed with a string. A listed string is handed to parseRange as it
\* is: when it fails to parse, no warning is added.
C14_LookupFailureWarns ==
    creation.active
    => /\ creation.version.failure
             \in {"no package name", "unreadable", "not found", "not listed"}
          => (creation.config.requiredVersion = NoVersion
              /\ InferenceFailedWithWarning)
       /\ creation.version.failure \in {"none", "parse"} => warnings = <<>>
       /\ creation.version.failure = "parse" =>
             /\ creation.version.state = "done" =>
                   creation.version.result.kind = "ParseError"
             /\ creation.version.state # "done" => created = <<>>

C14_Witness ==
    /\ consumePc = "shared"
    /\ creation.version.failure = "not listed"
    /\ creation.version.packageName = PackageA
    /\ Len(warnings) = 1
    /\ errors = <<>>
    /\ created[1].options.requiredVersion = NoVersion
    /\ created[1].options.import = <<"a">>

----------------------------------------------------------------------------
\* Version satisfaction: properties.

\* C15: a singleton request for a key that already has an active version
\* always succeeds by reusing the active version, whatever its other flags:
\* nothing is thrown, the active version stays, and exactly one conflict
\* warning is emitted when the active version does not satisfy the requested
\* range (active 18.2.0, range ^17.0.0), none when it does.
C15_SingletonReusesActive ==
    (lastRequest.count > 0 /\ lastRequest.singleton
       /\ lastRequest.activeBefore # NoActive)
    => /\ lastRequest.outcome = "resolved"
       /\ lastRequest.version = lastRequest.activeBefore
       /\ active = lastRequest.activeBefore
       /\ consoleWarnings - lastRequest.warningsBefore =
            (IF satisfies(lastRequest.activeBefore, lastRequest.range)
             THEN 0 ELSE 1)

C15_Witness ==
    /\ lastRequest.singleton
    /\ lastRequest.strictVersion
    /\ lastRequest.activeBefore = <<18, 2, 0>>
    /\ lastRequest.range = Caret(<<17, 0, 0>>)
    /\ lastRequest.outcome = "resolved"
    /\ lastRequest.version = <<18, 2, 0>>
    /\ consoleWarnings = lastRequest.warningsBefore + 1

----------------------------------------------------------------------------
\* Concurrent get calls: properties.

\* Loads of the block of a name that have been started and have not settled.
LoadsInFlight(name) ==
    blockLoads[name]
    + (IF LoadPending(promise) /\ promise.module = name THEN 1 ELSE 0)
    + (IF getPc = "returning" /\ getArgs.module = name
          /\ getLocal.settles = "loader"
       THEN 1 ELSE 0)

----------------------------------------------------------------------------
\* Normalization of the shared configuration: properties.

\* What a configured item says about strictVersion, singleton and import.
StrictVersionGiven(item) ==
    item.type = "object" /\ item.strictVersion \in {"true", "false"}
SingletonSet(item) == item.type = "object" /\ item.singleton
ImportDisabled(item) == item.type = "object" /\ item.import = FalseValue

\* C17: for every form of configured item (a bare key, a key with a version
\* string, an options object) that does not give strictVersion, the
\* normalized entry has strictVersion = true, unless singleton is set or the
\* import is disabled (import: false), and then it has strictVersion = false.
C17_StrictVersionDefault ==
    consumePc # "new"
    => \A k \in 1..Len(pluginOptions.consumes) :
          LET item == pluginOptions.consumes[k].item
          IN ~StrictVersionGiven(item)
             => consumes[k].options.strictVersion
                  = ~(SingletonSet(item) \/ ImportDisabled(item))

----------------------------------------------------------------------------
\* ContainerEntryModule.build: properties.

\* C18: a build creates exactly one block per expose entry, in entry order,
\* whose dependencies are the entry's import targets in declared order, with
\* loc.index 0..n-1, and declares the exports of the module as exactly get
\* and init, by one static exports dependency that lists them (no wildcard).
C18_BuildCreatesBlocksAndExports ==
    builds >= 1
    => /\ Len(blocks) = Len(exposes)
       /\ \A k \in 1..Len(exposes) :
             /\ blocks[k].loc.name = exposes[k].name
             /\ blocks[k].groupOptions.name = exposes[k].chunkName
             /\ blocks[k].request = exposes[k].import[Len(exposes[k].import)]
             /\ Len(blocks[k].dependencies) = Len(exposes[k].import)
             /\ \A i \in 1..Len(exposes[k].import) :
                   /\ blocks[k].dependencies[i].type = "ContainerExposedDependency"
                   /\ blocks[k].dependencies[i].exposedName = exposes[k].name
                   /\ blocks[k].dependencies[i].userRequest = exposes[k].import[i]
                   /\ blocks[k].dependencies[i].loc.name = exposes[k].name
                   /\ blocks[k].dependencies[i].loc.index = i - 1
       /\ \E d \in 1..Len(dependencies) :
             /\ dependencies[d].type = "StaticExportsDependency"
             /\ dependencies[d].exports \in {<<"get", "init">>, <<"init", "get">>}
       /\ \A d \in 1..Len(dependencies) :
             dependencies[d].type = "StaticExportsDependency"
             => dependencies[d].exports \in {<<"get", "init">>, <<"init", "get">>}

C18_Witness ==
    /\ builds = 1
    /\ exposes = <<ExposeA(<<"./x", "./y">>), ExposeB(<<"./y">>)>>
    /\ Len(blocks) = 2
    /\ blocks[1].dependencies[2].userRequest = "./y"
    /\ blocks[1].dependencies[2].loc.index = 1
    /\ blocks[2].groupOptions.name = "chunk-b"
    /\ dependencies[1].exports = <<"get", "init">>

\* C19: building is idempotent. After any number of consecutive builds the
\* module has one block per expose entry and a single dependency, the static
\* exports one, and a build of a module already built leaves its blocks and
\* dependencies as they were: the edges of the previous build are cleared.
C19_BuildIdempotent ==
    /\ [](builds >= 1 =>
            /\ Len(blocks) = Len(exposes)
            /\ Len(dependencies) = 1
            /\ dependencies[1].type = "StaticExportsDependency")
    /\ [][builds >= 1 =>
            (blocks' = blocks /\ dependencies' = dependencies)]_vars

C19_Witness ==
    /\ builds = 3
    /\ Len(exposes) = 2
    /\ Len(blocks) = 2
    /\ Len(dependencies) = 1

----------------------------------------------------------------------------
\* createConsumeSharedModule with a configured required version: properties.

\* C20: when the entry has a configured required version range, the version
\* promise resolves with exactly that range: no package name is taken from
\* the options or the request, the description file is not read, no warning
\* is added, and the module created carries that range, for every request.
C20_ConfiguredRangeUsedVerbatim ==
    (creation.active /\ creation.config.requiredVersion # NoVersion)
    => /\ creation.version.state = "done"
       /\ creation.version.result = creation.config.requiredVersion
       /\ creation.version.packageName = NoString
       /\ creation.version.failure = "none"
       /\ creation.descriptionReads = 0
       /\ warnings = <<>>
       /\ consumePc = "shared" =>
             /\ Len(created) = 1
             /\ created[1].options.requiredVersion
                  = creation.config.requiredVersion

\* A request from which no package name can be extracted, which would warn
\* if the version were inferred.
C20_Witness ==
    /\ consumePc = "shared"
    /\ creation.tier = "exact"
    /\ creation.request = <<Backslash, "a">>
    /\ extractPackageName(creation.request) = NoString
    /\ creation.config.requiredVersion = parseRange(<<"^", "1">>)
    /\ created[1].options.requiredVersion = parseRange(<<"^", "1">>)
    /\ creation.descriptionReads = 0
    /\ warnings = <<>>

----------------------------------------------------------------------------
\* createConsumeSharedModule for an entry configured by a path: properties.

\* The creation under way is the one of an entry whose configured request is
\* a relative or an absolute path, or is called with such a request.
CreatedFromPath ==
    /\ creation.active
    /\ \/ isDirectRequest(creation.request)
       \/ /\ creation.tier = "resolved"
          /\ \E k \in 1..Len(consumes) :
                /\ isDirectRequest(consumes[k].key)
                /\ consumes[k].options = creation.config

----------------------------------------------------------------------------
\* createConsumeSharedModule: the join of the two lookups.

\* C22: the resolution of the fallback and the inference of the version are
\* two lookups that complete in either order; the module is created once,
\* only when both have completed (each exactly once), and it carries what
\* the two lookups yielded, whichever completed first.
C22_CreatedOnceAfterBothLookups ==
    /\ created # <<>> =>
          /\ Len(created) = 1
          /\ consumePc = "shared"
          /\ creation.fallback.state = "done"
          /\ creation.version.state = "done"
          /\ Len(creation.settled) = 2
          /\ {creation.settled[1], creation.settled[2]} = {"fallback", "version"}
          /\ created[1].options.importResolved = creation.fallback.result
          /\ created[1].options.requiredVersion = creation.version.result
    /\ (creation.active /\ consumePc # "shared") => created = <<>>

\* Both lookups were asynchronous and the version was the first to complete.
C22_Witness ==
    /\ consumePc = "shared"
    /\ creation.descriptionReads = 1
    /\ creation.settled = <<"version", "fallback">>
    /\ created[1].options.importResolved
         = resolvedPath(IssuerContext, creation.config.import)
    /\ created[1].options.requiredVersion = parseRange(<<"^", "1">>)

----------------------------------------------------------------------------
\* createConsumeSharedModule: a fallback that does not resolve.

\* The resolver called back with an error for the import of the entry.
FallbackFailed ==
    /\ creation.active
    /\ truthy(creation.config.import)
    /\ creation.fallback.state = "done"
    /\ creation.fallback.result = NoString

\* The step in which the resolver calls back with an error.
FallbackFails ==
    /\ creation.fallback.state = "pending"
    /\ creation'.fallback = [state |-> "done", result |-> NoString]

\* C23: a fallback import that does not resolve is a failure of its entry
\* only. One ModuleNotFoundError that names the request is recorded; the
\* promise of the fallback still resolves, so the module is created as soon
\* as the version is known, without import (import is absent exactly when no
\* fallback resolved); and the step changes nothing else: the tables the
\* other entries are matched by, their options, the warnings, the modules
\* created and the version lookup stay as they were.
C23_FallbackFailureIsolated ==
    /\ [](FallbackFailed =>
            /\ Cardinality({k \in 1..Len(errors) :
                               errors[k] = fallbackError(creation.request)}) = 1
            /\ Len(errors) = 1 + Len(resolveMatchedConfigs(consumes).errors)
            /\ (consumePc = "creating" /\ creation.version.state = "done")
                  => ENABLED CreateJoin
            /\ consumePc = "shared" =>
                  /\ Len(created) = 1
                  /\ created[1].options.import = NoString
                  /\ created[1].options.importResolved = NoString
                  /\ created[1].options.shareKey = creation.config.shareKey)
    /\ [](consumePc = "shared" =>
            (created[1].options.import = NoString
               <=> ~truthy(creation.fallback.result)))
    /\ [][FallbackFails =>
            /\ errors' = Append(errors, fallbackError(creation.request))
            /\ creation'.version = creation.version
            /\ creation'.config = creation.config
            /\ UNCHANGED <<consumes, resolvedConsumes, unresolvedConsumes,
                           prefixedConsumes, warnings, created, consumePc>>]_vars

\* The entry has a sibling; its fallback did not resolve and it was created.
C23_Witness ==
    /\ consumePc = "shared"
    /\ Len(consumes) = 2
    /\ FallbackFailed
    /\ errors = <<fallbackError(creation.request)>>
    /\ created[1].options.import = NoString
    /\ created[1].options.shareKey = creation.config.shareKey

----------------------------------------------------------------------------
\* get: the marker while the requested module loads.

\* The last call returned the promise of a loader and the block is loading.
StillLoading == getPc = "idle" /\ LoadPending(promise)

----------------------------------------------------------------------------
\* ContainerReferencePlugin: reference names of the module and of apply.

\* C25: for every remote configuration, each reference name the RemoteModule
\* lists for a target that is not internal is a name apply registered with
\* the externals mechanism, and it is registered for that same target.
C25_ReferenceNamesRegistered ==
    factorized.index # 0
    => \A k \in 1..Len(ConfiguredTargets) :
          ~startsWith(ConfiguredTargets[k], <<InternalMarker>>)
          => \E j \in 1..Len(remoteExternals(remotes)) :
                /\ remoteExternals(remotes)[j].name
                     = factorized.module.externals[k]
                /\ remoteExternals(remotes)[j].target = ConfiguredTargets[k]

----------------------------------------------------------------------------
\* The hooks and the promise of resolveMatchedConfigs.

\* The promise of resolveMatchedConfigs has fulfilled: the tables are set.
TablesSet ==
    resolvedConsumes.set /\ unresolvedConsumes.set /\ prefixedConsumes.set

\* C26: in every interleaving of the factorize hook with the resolution of
\* the configuration, the request is matched against the tables only when
\* they are set. A request that arrives before is held: nothing is created
\* for it and it is not handed on to the factory; the body of the hook runs,
\* and the createModule hook reads the resolved table, with the tables set.
C26_MatchedOnlyAfterResolution ==
    /\ [](consumePc \in {"creating", "resolve", "createModule", "shared",
                         "normal", "unresolved"} => TablesSet)
    /\ []((consumePc = "deferred" /\ ~TablesSet) =>
            (creation = NoCreation /\ created = <<>> /\ resource = NoString))
    /\ [][(consumePc = "deferred" /\ consumePc' # "deferred") => TablesSet]_vars
    /\ [][(consumePc = "createModule" /\ consumePc' # "createModule")
            => resolvedConsumes.set]_vars

\* The request equals a configured key and arrived before the tables were
\* set: it is held.
C26_Witness ==
    /\ consumePc = "deferred"
    /\ ~TablesSet
    /\ Len(consumes) = 1
    /\ consumes[1].key = resolveData.request
    /\ resolveData.request = <<"a">>
    /\ resolveData.dependency = "ImportDependency"
    /\ creation = NoCreation
    /\ created = <<>>

----------------------------------------------------------------------------
\* The hooks and the dependencies of sharing itself.

\* C27: a request whose first dependency is a ConsumeSharedFallbackDependency
\* or a ProvideForSharedDependency is never made a ConsumeSharedModule, by
\* the factorize hook or by the createModule hook, even when the request
\* equals a configured key, starts with a configured prefix or resolves to
\* a configured path: it goes to the factory and ends as a normal module
\* (or unresolved), so that the fallback of a shared module is the real
\* module.
C27_SharingDependenciesPassThrough ==
    resolveData.dependency \in {"ConsumeSharedFallbackDependency",
                                "ProvideForSharedDependency"}
    => /\ creation = NoCreation
       /\ created = <<>>
       /\ warnings = <<>>
       /\ consumePc \in {"new", "start", "deferred", "resolve", "createModule",
                         "normal", "unresolved"}

\* The request of a ProvideForSharedDependency equals a configured key and
\* both hooks have run.
C27_Witness ==
    /\ consumePc = "normal"
    /\ resolveData.dependency = "ProvideForSharedDependency"
    /\ resolveData.request = <<"a">>
    /\ tableGet(unresolvedConsumes, resolveData.request) = 1
    /\ resource = <<"/", "a">>
    /\ created = <<>>

====
